---- MODULE Spec2Model ----
(***************************************************************************)
(* Orchestration loop of the browser-automation side panel                 *)
(* (sidebar.js: handleExecute, startAutomationLoop, requestNextAction,     *)
(* executeActionOnPage, finalizeExecution, handleStop) together with the   *)
(* replies of the in-page executor (content-script.js handleExecuteAction).*)
(* Every await of the panel code is a step boundary; the planner, the      *)
(* capture and the frames answer nondeterministically.                     *)
(***************************************************************************)
EXTENDS Integers, Sequences, FiniteSets, TLC

\* ------------------------------------------------------------------------
\* Bounds of the model (not program constants)
\* ------------------------------------------------------------------------
\* number of uncounted transient-failure replans allowed in one session
MaxTransient == 1
\* largest number of frames getAllFramesSafe reports
MaxFrames == 2
\* largest element count of a capture (0 = empty snapshot)
MaxElems == 1
\* largest number of frames of a multi-frame capture
MaxCaptureFrames == 3
\* largest element list one frame answers a capture with
MaxFrameElems == 2
\* largest number of elements of the page of one frame
MaxPageElems == 2
\* resolutions of one registry entry that are followed
MaxAccess == 2
\* structural changes of the page that are followed
MaxMutations == 2
\* options of a select element
MaxOptions == 2
\* periods of 30 minutes that are followed
MaxClock == 3
\* changes of the page during one waitForSelector
MaxChanges == 3
\* longest timeout of waitForSelector, in ticks
MaxWait == 2
\* labels of one element
MaxLabels == 4
\* elements of the page that get a listener
MaxCreated == 2600
\* presses of the Execute button
MaxRuns == 3
\* tabs of the window
MaxTabs == 2
\* boxes of a candidate element and the descendants below it
MaxDepth == 4

\* ------------------------------------------------------------------------
\* Program constants
\* ------------------------------------------------------------------------
maxIterations == 20
maxCaptureAttempts == 3
NavSettleDelay == 2500
NavBackoffStep == 800

Null == [null |-> TRUE]
\* state.sessionId === null
NoSession == "null"

\* ------------------------------------------------------------------------
\* Texts: a message is a sequence of words; <<>> is the empty (falsy) text
\* ------------------------------------------------------------------------
NoText == <<>>

LowerTok ==
  [w \in {"Element", "Target", "No", "Dropdown", "Click", "Failed", "Planner",
          "Backend", "Session", "Gemini", "Bad", "Gateway", "Cannot",
          "N", "Y"} |->
     CASE w = "Element"  -> "element"
       [] w = "N"        -> "n"
       [] w = "Y"        -> "y"
       [] w = "Target"   -> "target"
       [] w = "No"       -> "no"
       [] w = "Dropdown" -> "dropdown"
       [] w = "Click"    -> "click"
       [] w = "Failed"   -> "failed"
       [] w = "Planner"  -> "planner"
       [] w = "Backend"  -> "backend"
       [] w = "Session"  -> "session"
       [] w = "Gemini"   -> "gemini"
       [] w = "Bad"      -> "bad"
       [] w = "Gateway"  -> "gateway"
       [] w = "Cannot"   -> "cannot"]

toLowerCase(s) ==
  [i \in 1..Len(s) |-> IF s[i] \in DOMAIN LowerTok THEN LowerTok[s[i]] ELSE s[i]]

\* String.prototype.includes on word sequences
includes(s, p) ==
  \E i \in 0..(Len(s) - Len(p)) : SubSeq(s, i + 1, i + Len(p)) = p

\* a || b on texts
OrText(a, b) == IF a # NoText THEN a ELSE b

\* ------------------------------------------------------------------------
\* startAutomationLoop: classification of a failed execution result
\* ------------------------------------------------------------------------
transientPatterns ==
  { <<"element", "not", "found">>, <<"failed", "to", "fetch">>, <<"network">>,
    <<"timeout">>, <<"detached">>, <<"stale">>, <<"not", "clickable">>,
    <<"intercepted">> }

errMsg(res) == toLowerCase(OrText(res.error, res.message))

isTransient(res) == \E p \in transientPatterns : includes(errMsg(res), p)


\* message of the error outcome of a failed execution result
FailureMessage(res) == OrText(OrText(res.error, res.message), <<"Action", "execution", "failed">>)

\* executeActionOnPage: does the top-frame response ask for the frame sweep
isElementNotFound(res) ==
  LET msg == toLowerCase(OrText(res.error, res.message))
  IN  \/ includes(msg, <<"element", "not", "found">>)
      \/ includes(msg, <<"target", "is", "not">>)
      \/ includes(msg, <<"no", "form", "found">>)

\* ------------------------------------------------------------------------
\* requestNextAction: one HTTP exchange and the classification of its failure
\* ------------------------------------------------------------------------
PlanKinds == {"none", "complete", "completeWithAction", "actionless", "action", "typeless"}

\* what the backend may answer to POST /next-action
\*   net = "reject": fetch rejects; body = "text": the body is not JSON
PlannerResponses ==
  { [net |-> "reject", ok |-> FALSE, status |-> "0", body |-> "none",
     success |-> FALSE, error |-> NoText, plan |-> "none"] }
  \cup
  { [net |-> "ok", ok |-> FALSE, status |-> "502", body |-> "text",
     success |-> FALSE, error |-> NoText, plan |-> "none"] }
  \cup
  { [net |-> "ok", ok |-> TRUE, status |-> "200", body |-> "json",
     success |-> TRUE, error |-> NoText, plan |-> k] : k \in PlanKinds }
  \cup
  { [net |-> "ok", ok |-> FALSE, status |-> "502", body |-> "json",
     success |-> FALSE, error |-> <<"Planner", "error">>, plan |-> "none"],
    [net |-> "ok", ok |-> FALSE, status |-> "503", body |-> "json",
     success |-> FALSE, error |-> NoText, plan |-> "none"],
    [net |-> "ok", ok |-> FALSE, status |-> "404", body |-> "json",
     success |-> FALSE, error |-> <<"Session", "not", "found">>, plan |-> "none"],
    [net |-> "ok", ok |-> TRUE, status |-> "200", body |-> "json",
     success |-> FALSE, error |-> <<"Gemini", "quota">>, plan |-> "none"] }

\* doRequest: [thrown, msg, plan]
doRequest(resp) ==
  IF resp.net = "reject"
    THEN [thrown |-> TRUE, msg |-> <<"Failed", "to", "fetch">>, plan |-> "none"]
  ELSE IF resp.body # "json"
    THEN [thrown |-> TRUE, msg |-> <<"Failed", "to", "parse", "backend", "response">>,
          plan |-> "none"]
  ELSE IF ~resp.ok \/ ~resp.success
    THEN [thrown |-> TRUE,
          msg |-> OrText(resp.error, <<"Backend", "error:", resp.status>>),
          plan |-> "none"]
  ELSE [thrown |-> FALSE, msg |-> NoText, plan |-> resp.plan]

plannerTransient(m) ==
  LET msg == toLowerCase(m)
  IN  \/ includes(msg, <<"failed", "to", "fetch">>)
      \/ includes(msg, <<"network">>)
      \/ includes(msg, <<"timeout">>)
      \/ includes(msg, <<"internal", "server", "error">>)
      \/ includes(msg, <<"bad", "gateway">>)
      \/ includes(msg, <<"service", "unavailable">>)
      \/ includes(msg, <<"planner", "error">>)
      \/ includes(msg, <<"gemini">>)

\* ------------------------------------------------------------------------
\* Snapshots, capture replies, replies of the in-page executor
\* ------------------------------------------------------------------------
\* src: "initial" (handleExecute), "capture" (captureDOMFromPage in the loop),
\*      "embedded" (new_dom of an execution result);
\* epoch: number of actions dispatched when the snapshot was taken
Snap(src, n, epoch) == [src |-> src, elems |-> n, epoch |-> epoch]

\* captureDOMFromPage: rejects, answers success=false, or answers a snapshot
CaptureReplies ==
  { [kind |-> "reject", elems |-> 0], [kind |-> "fail", elems |-> 0] }
  \cup { [kind |-> "ok", elems |-> n] : n \in 0..MaxElems }

Reply(s, e, m, nav, pend, d, perf) ==
  [hasSuccess |-> TRUE, success |-> s, error |-> e, message |-> m,
   navigated |-> nav, navigationPending |-> pend, dom |-> d, performed |-> perf]

\* handleExecuteAction: the responses one frame can send (dom = -1: new_dom null)
ExecReplies ==
  { Reply(TRUE, NoText, <<"Clicked", "element">>, nav, FALSE, MaxElems, TRUE) :
      nav \in BOOLEAN }
  \cup
  { Reply(TRUE, NoText, <<"Navigating", "to">>, TRUE, TRUE, -1, TRUE) }
  \cup
  { Reply(FALSE, <<"Element", "not", "found", "for", "UID">>, NoText, nav, FALSE, MaxElems, FALSE) :
      nav \in BOOLEAN }
  \cup
  { Reply(FALSE, <<"Target", "is", "not", "a", "checkbox">>, NoText, FALSE, FALSE, MaxElems, FALSE),
    Reply(FALSE, <<"Dropdown", "option", "not", "found">>, NoText, FALSE, FALSE, MaxElems, TRUE),
    Reply(FALSE, NoText, <<"Click", "dispatched">>, FALSE, FALSE, MaxElems, TRUE),
    Reply(FALSE, <<"Node", "is", "detached">>, NoText, FALSE, FALSE, -1, TRUE),
    Reply(FALSE, <<"Cannot", "read", "properties">>, NoText, FALSE, FALSE, -1, FALSE) }

\* a response object without a success field
Malformed ==
  [hasSuccess |-> FALSE, success |-> FALSE, error |-> NoText, message |-> NoText,
   navigated |-> FALSE, navigationPending |-> FALSE, dom |-> -1, performed |-> FALSE]

\* sendResponse called with nothing: the callback receives undefined
Undefined == [undefined |-> TRUE]
\* chrome.runtime.lastError: sendMessageToContentScript rejects
Rejected == [rejected |-> TRUE]

\* executeActionOnPage: the result returned when no frame answered at all
FallbackResult ==
  [hasSuccess |-> TRUE, success |-> FALSE,
   error |-> <<"Element", "not", "found", "in", "any", "frame">>, message |-> NoText,
   navigated |-> FALSE, navigationPending |-> FALSE, dom |-> -1, performed |-> FALSE]

TopResponses == ExecReplies \cup {Malformed, Undefined, Rejected}
FrameResponses == ExecReplies \cup {Malformed, Undefined, Rejected}

\* the result executeActionOnPage hands back when the frame sweep found nothing
SweepResult(resp) == IF resp = Undefined THEN FallbackResult ELSE resp

\* ------------------------------------------------------------------------
\* Outcomes handed to finalizeExecution (via = the place that produced it)
\* ------------------------------------------------------------------------
Outcome(st, m, via) == [status |-> st, message |-> m, via |-> via]


VARIABLES
  pc,                        \* the await the panel code is suspended at
  isExecuting, stopRequested, sessionId,          \* state.* of the panel
  iteration, currentDom, previousResultForBackend, outcome,  \* loop locals
  actionPlan, executionResult,
  reqState, reqCalls, reqErr, reqDom,             \* requestNextAction
  response, frames, frameIdx,                     \* executeActionOnPage
  captureAttempt, lastDelay, result,              \* post-navigation capture
  \* history of the running session
  round, nPlanRounds, nDispatched, nRetries,
  sent, performedBy,
  stopRound, stopMid, dispAfterStop, sawComplete, plannerOnlyActions

loopVars == <<iteration, currentDom, previousResultForBackend, outcome,
              actionPlan, executionResult>>
reqVars == <<reqState, reqCalls, reqErr, reqDom>>
execVars == <<response, frames, frameIdx>>
navVars == <<captureAttempt, lastDelay, result>>
histVars == <<round, nPlanRounds, nDispatched, nRetries, sent, performedBy,
              stopRound, stopMid, dispAfterStop, sawComplete, plannerOnlyActions>>
uiVars == <<isExecuting, stopRequested, sessionId>>

panelVars == <<pc, uiVars, loopVars, reqVars, execVars, navVars, histVars>>

\* the message transport of the panel (captureDOMFromPage,
\* sendMessageToContentScript, injectContentScripts), modelled on its own
VARIABLES
  currentTabId,              \* state.currentTabId (0: no tab)
  cpc,                       \* the await captureDOMFromPage is suspended at
  frameList, scope, fi,      \* frames, which send is running, loop index
  results,                   \* results of the frame loop
  attempts, injections,      \* chrome.tabs.sendMessage / executeScript calls
  firstError,                \* error caught from the first attempt()
  returned,                  \* what captureDOMFromPage returned or threw
  lastSend, answered         \* history: last finished send, frames' answers

sendVars == <<currentTabId, cpc, frameList, scope, fi, results, attempts,
              injections, firstError, returned, lastSend, answered>>

\* the page of one frame and the uid registry of its content script
VARIABLES
  elements,                  \* the attributes of the page's elements
  page, hidden,              \* attached elements in document order; display:none
  uidRegistry,               \* uid-generator.js: uidRegistry
  snapshot,                  \* the last result of captureDOM
  lookups, mutations,        \* history: results of getElementByUID per uid
                             \* since the last change of the page; changes
  clock                      \* Date.now(), counted in periods of 30 minutes

uidVars ==
  <<elements, page, hidden, uidRegistry, snapshot, lookups, mutations, clock>>

\* the executor of one frame's content script
VARIABLES
  epc,                       \* the point handleExecuteAction has reached
  action,                    \* message.action
  targetEl, resolution,      \* the element resolveTargetElement returned
  retryAttempt,              \* attempt of resolveElementWithRetry
  actionResult, navigated,   \* result of executeAction; hasNavigated()
  sentResponse,              \* the argument of sendResponse
  timerPending, location,    \* the timer of navigateToUrl; window.location
  \* history of the message being handled
  nLookups, nRecaptures, sleeps, nResponses, postCaptures, navTimers,
  movedUnanswered

contentVars == <<epc, action, targetEl, resolution, retryAttempt, actionResult,
                 navigated, sentResponse, timerPending, location, nLookups,
                 nRecaptures, sleeps, nResponses, postCaptures, navTimers,
                 movedUnanswered>>

\* one element of the page and the interaction helpers of the content
\* script applied to it
VARIABLES
  control,                   \* the element: tag, type, checked, value, options
  dispatched,                \* what the last call did to it: click(), events
  ret,                       \* what the last call returned (a record)
  call                       \* history: the last call, its argument and the
                             \* element before it

domVars == <<control, dispatched, ret, call>>

\* one call of waitForSelector(selector, timeout) and the document it watches
VARIABLES
  doc,                       \* matching: some element matches the selector;
                             \* changes: history, changes of the page so far
  waiter                     \* the promise (settled), the MutationObserver
                             \* (observing, queued: a record awaits delivery),
                             \* the timer, and the history of the call

waitVars == <<doc, waiter>>

\* window.__baEventListenerRegistry of the extractor
VARIABLES
  registryList               \* registry.list in insertion order; an element is
                             \* the number of its creation

listenerVars == <<registryList>>

\* the calls of handleExecute of one panel and what they share
VARIABLES
  state,                     \* state.sessionId (0: null), state.isExecuting,
                             \* state.stopRequested, state.currentTabId
  runs,                      \* per call of handleExecute: the await it is
                             \* suspended at (pc), the session id it got, the
                             \* tab that was active at its start, and the
                             \* tabs its CAPTURE and PERFORM messages went to
  completions                \* history: per session id, the requests
                             \* /session/<id>/complete sent to the backend

runVars == <<state, runs, completions>>

otherVars == <<sendVars, uidVars, contentVars, domVars, waitVars, listenerVars,
  runVars>>
notSendVars == <<panelVars, uidVars, contentVars, domVars, waitVars, listenerVars,
  runVars>>
notUidVars == <<panelVars, sendVars, contentVars, domVars, waitVars, listenerVars,
  runVars>>
notExecVars == <<panelVars, sendVars, uidVars, domVars, waitVars, listenerVars,
  runVars>>
notDomVars == <<panelVars, sendVars, uidVars, contentVars, waitVars, listenerVars,
  runVars>>
notWaitVars == <<panelVars, sendVars, uidVars, contentVars, domVars, listenerVars,
  runVars>>
notListenerVars == <<panelVars, sendVars, uidVars, contentVars, domVars, waitVars,
  runVars>>
notRunVars == <<panelVars, sendVars, uidVars, contentVars, domVars, waitVars,
  listenerVars>>

vars == <<panelVars, otherVars>>

FrameIds == 0..(MaxFrames - 1)

\* the transport at rest: no capture has been asked for
TransportIdle ==
  /\ currentTabId = 1 /\ cpc = "idle"
  /\ frameList = <<>> /\ scope = "none" /\ fi = 0 /\ results = <<>>
  /\ attempts = 0 /\ injections = 0 /\ firstError = NoText
  /\ returned = Null /\ lastSend = Null /\ answered = <<>>

\* an empty page whose content script has captured nothing yet
UidIdle ==
  /\ elements = [k \in 1..MaxPageElems |-> [id |-> "", name |-> "", testid |-> "",
                                           test |-> "", text |-> ""]]
  /\ page = <<>> /\ hidden = {} /\ uidRegistry = <<>>
  /\ snapshot = Null /\ lookups = <<>> /\ mutations = 0 /\ clock = 0

PanelInit ==
  /\ pc = "idle"
  /\ isExecuting = FALSE /\ stopRequested = FALSE /\ sessionId = NoSession
  /\ iteration = 0 /\ currentDom = Null /\ previousResultForBackend = Null
  /\ outcome = Null /\ actionPlan = "unset" /\ executionResult = Null
  /\ reqState = "idle" /\ reqCalls = 0 /\ reqErr = NoText /\ reqDom = Null
  /\ response = Null /\ frames = 0 /\ frameIdx = 0
  /\ captureAttempt = 0 /\ lastDelay = 0 /\ result = Null
  /\ round = 0 /\ nPlanRounds = 0 /\ nDispatched = 0 /\ nRetries = 0
  /\ sent = [f \in FrameIds |-> 0] /\ performedBy = {}
  /\ stopRound = -1 /\ stopMid = FALSE /\ dispAfterStop = 0 /\ sawComplete = FALSE
  /\ plannerOnlyActions = TRUE

\* the content script has handled no EXECUTE_ACTION yet
ExecutorIdle ==
  /\ epc = "idle" /\ action = [isNull |-> TRUE, type |-> "", typeIsString |-> FALSE,
                               uid |-> FALSE, value |-> "none"] /\ targetEl = FALSE
  /\ retryAttempt = 0 /\ nLookups = 0 /\ nRecaptures = 0 /\ sleeps = <<>>
  /\ resolution = "none"
  /\ actionResult = Null /\ navigated = FALSE
  /\ nResponses = 0 /\ sentResponse = Null /\ postCaptures = 0
  /\ navTimers = 0 /\ timerPending = FALSE /\ location = "here"
  /\ movedUnanswered = FALSE

\* no element has been handed to an interaction helper: element is null
DomIdle ==
  /\ control = [tag |-> "none", type |-> "", checked |-> FALSE, value |-> <<>>,
                options |-> <<>>]
  /\ dispatched = <<>> /\ ret = Null
  /\ call = [fn |-> "none"]

\* no waitForSelector has been called
WaitIdle ==
  /\ doc = [matching |-> FALSE, changes |-> 0]
  /\ waiter = [called |-> FALSE, selector |-> "", settled |-> "none",
               resolves |-> 0, observing |-> FALSE, queued |-> FALSE,
               timer |-> FALSE, timeout |-> 0, elapsed |-> 0, settledAt |-> 0,
               atCall |-> FALSE, appeared |-> FALSE]

\* no listener has been added to an element
ListenerIdle == registryList = <<>>

\* the Execute button has not been pressed
RunIdle ==
  /\ state = [sessionId |-> 0, isExecuting |-> FALSE, stopRequested |-> FALSE,
              currentTabId |-> 1]
  /\ runs = <<>> /\ completions = <<>>

Init ==
  /\ PanelInit /\ TransportIdle /\ UidIdle /\ ExecutorIdle /\ DomIdle
  /\ WaitIdle /\ ListenerIdle /\ RunIdle

\* ------------------------------------------------------------------------
\* handleExecute / resetUI / finalizeExecution / handleStop
\* ------------------------------------------------------------------------
\* pcs inside the body of one loop iteration
BodyPcs == {"recapture", "plan", "planRetryCapture", "planRetry", "planned",
            "execTop", "execFrames", "executed", "transientCapture",
            "navSettle", "navCapture", "navBackoff"}

\* the loop breaks: finalizeExecution(outcome) runs up to its await
Break(o) ==
  /\ outcome' = o
  /\ pc' = "finalize"

\* an exception reaches the catch of handleExecute: resetUI(), then
\* completeBackendSession if a session id exists
Catch(m, sid) ==
  /\ outcome' = Outcome("error", m, "catch")
  /\ isExecuting' = FALSE
  /\ stopRequested' = FALSE
  /\ IF sid # NoSession
       THEN pc' = "catchComplete" /\ sessionId' = sid
       ELSE pc' = "idle" /\ sessionId' = NoSession

\* handleExecute, up to the await of createBackendSession
HandleExecute ==
  /\ pc = "idle"
  /\ stopRequested' = FALSE
  /\ isExecuting' = TRUE
  /\ pc' = "createSession"
  /\ iteration' = 0 /\ currentDom' = Null /\ previousResultForBackend' = Null
  /\ outcome' = Null /\ actionPlan' = "unset" /\ executionResult' = Null
  /\ reqState' = "idle" /\ reqCalls' = 0 /\ reqErr' = NoText /\ reqDom' = Null
  /\ response' = Null /\ frames' = 0 /\ frameIdx' = 0
  /\ captureAttempt' = 0 /\ lastDelay' = 0 /\ result' = Null
  /\ round' = 0 /\ nPlanRounds' = 0 /\ nDispatched' = 0 /\ nRetries' = 0
  /\ sent' = [f \in FrameIds |-> 0] /\ performedBy' = {}
  /\ stopRound' = -1 /\ stopMid' = FALSE /\ dispAfterStop' = 0 /\ sawComplete' = FALSE
  /\ plannerOnlyActions' = TRUE
  /\ UNCHANGED sessionId
  /\ UNCHANGED otherVars

\* createBackendSession answers
CreateSession ==
  /\ pc = "createSession"
  /\ \E r \in {"ok", "fail", "reject"} :
       IF r = "ok"
         THEN /\ sessionId' = "sid"
              /\ pc' = "initialCapture"
              /\ UNCHANGED <<isExecuting, stopRequested, outcome>>
         ELSE Catch(<<"Failed", "to", "create", "session">>, sessionId)
  /\ UNCHANGED <<iteration, currentDom, previousResultForBackend, actionPlan,
                 executionResult, reqVars, execVars, navVars, histVars>>
  /\ UNCHANGED otherVars

\* delay(1000), then the initial captureDOMFromPage answers
InitialCapture ==
  /\ pc = "initialCapture"
  /\ \E c \in CaptureReplies :
       IF c.kind = "ok"
         THEN /\ currentDom' = Snap("initial", c.elems, 0)
              /\ pc' = "sendDom"
              /\ UNCHANGED <<uiVars, outcome>>
         ELSE /\ Catch(<<"Unable", "to", "capture", "DOM">>, sessionId)
              /\ UNCHANGED currentDom
  /\ UNCHANGED <<iteration, previousResultForBackend, actionPlan, executionResult,
                 reqVars, execVars, navVars, histVars>>
  /\ UNCHANGED otherVars

\* sendDOMToBackend answers; on success startAutomationLoop(domResponse.data)
SendDOMToBackend ==
  /\ pc = "sendDom"
  /\ \E r \in {"ok", "fail", "reject"} :
       IF r = "ok"
         THEN /\ pc' = "loopTop"
              /\ UNCHANGED <<uiVars, outcome>>
         ELSE Catch(<<"Failed", "to", "analyze", "DOM">>, sessionId)
  /\ UNCHANGED <<iteration, currentDom, previousResultForBackend, actionPlan,
                 executionResult, reqVars, execVars, navVars, histVars>>
  /\ UNCHANGED otherVars

\* completeBackendSession of the catch path settles: state.sessionId = null
CatchComplete ==
  /\ pc = "catchComplete"
  /\ sessionId' = NoSession
  /\ pc' = "idle"
  /\ UNCHANGED <<isExecuting, stopRequested, loopVars, reqVars, execVars, navVars, histVars>>
  /\ UNCHANGED otherVars

\* completeBackendSession of finalizeExecution settles: sessionId = null, resetUI()
FinalizeExecution ==
  /\ pc = "finalize"
  /\ sessionId' = NoSession
  /\ isExecuting' = FALSE
  /\ stopRequested' = FALSE
  /\ pc' = "idle"
  /\ UNCHANGED <<loopVars, reqVars, execVars, navVars, histVars>>
  /\ UNCHANGED otherVars

\* (variant: Stop also resets the UI at once, re-enabling the Execute button)
HandleStopResetsUI ==
  /\ isExecuting /\ ~stopRequested
  /\ stopRequested' = TRUE
  /\ isExecuting' = FALSE
  /\ stopRound' = round
  /\ stopMid' = (pc \in BodyPcs)
  /\ UNCHANGED <<pc, sessionId, loopVars, reqVars, execVars, navVars,
                 round, nPlanRounds, nDispatched, nRetries, sent, performedBy,
                 dispAfterStop, sawComplete, plannerOnlyActions>>
  /\ UNCHANGED otherVars

\* handleStop: the Stop button
HandleStop ==
  /\ isExecuting /\ ~stopRequested
  /\ stopRequested' = TRUE
  /\ stopRound' = round
  /\ stopMid' = (pc \in BodyPcs)
  /\ UNCHANGED <<pc, isExecuting, sessionId, loopVars, reqVars, execVars, navVars,
                 round, nPlanRounds, nDispatched, nRetries, sent, performedBy,
                 dispAfterStop, sawComplete, plannerOnlyActions>>
  /\ UNCHANGED otherVars

\* ------------------------------------------------------------------------
\* Several presses of the Execute button: each call of handleExecute runs
\* between its awaits, on the state all calls share
\* ------------------------------------------------------------------------
\* resetUI()
resetUI(st) == [st EXCEPT !.isExecuting = FALSE, !.stopRequested = FALSE]

\* completeBackendSession: nothing without a session id, else a request for
\* state.sessionId is sent
completeBackendSession(c, st) ==
  IF st.sessionId = 0 THEN c ELSE [c EXCEPT ![st.sessionId] = @ + 1]

\* the catch block of handleExecute in call r: resetUI(), then the request
\* is awaited if a session id is set, then state.sessionId = null
catchBlock(r) ==
  /\ completions' = completeBackendSession(completions, state)
  /\ IF state.sessionId # 0
       THEN /\ state' = resetUI(state)
            /\ runs' = [runs EXCEPT ![r].pc = "catchComplete"]
       ELSE /\ state' = resetUI(state)
            /\ runs' = [runs EXCEPT ![r].pc = "done"]

\* the Execute button is enabled and pressed: handleExecute up to its first
\* await
PressExecute ==
  /\ ~state.isExecuting /\ Len(runs) < MaxRuns
  /\ state' = [state EXCEPT !.stopRequested = FALSE, !.isExecuting = TRUE]
  /\ runs' = Append(runs, [pc |-> "createSession", sid |-> 0,
                           tab |-> state.currentTabId, sentTo |-> {}])
  /\ UNCHANGED <<completions, notRunVars>>

\* createBackendSession answers call r: a new session id, or a failure
SessionCreated ==
  \E r \in 1..Len(runs) :
  /\ runs[r].pc = "createSession"
  /\ \E ok \in BOOLEAN :
       IF ok
         THEN /\ state' = [state EXCEPT !.sessionId = Len(completions) + 1]
              /\ runs' = [runs EXCEPT ![r].pc = "setup",
                                      ![r].sid = Len(completions) + 1]
              /\ completions' = Append(completions, 0)
         ELSE catchBlock(r)
  /\ UNCHANGED notRunVars

\* the initial capture (its CAPTURE message goes to state.currentTabId) and
\* sendDOMToBackend of call r succeed, or sendDOMToBackend throws
SetupDone ==
  \E r \in 1..Len(runs) :
  /\ runs[r].pc = "setup"
  /\ \E ok \in BOOLEAN :
       LET posted == [runs EXCEPT ![r].sentTo = @ \cup {state.currentTabId}]
       IN  IF ok
             THEN /\ runs' = [posted EXCEPT ![r].pc = "loop"]
                  /\ UNCHANGED <<state, completions>>
             ELSE /\ completions' = completeBackendSession(completions, state)
                  /\ state' = resetUI(state)
                  /\ runs' = [posted EXCEPT ![r].pc =
                        IF state.sessionId # 0 THEN "catchComplete" ELSE "done"]
  /\ UNCHANGED notRunVars

\* sendMessageToContentScript in the loop of call r: a CAPTURE or PERFORM
\* message is sent with chrome.tabs.sendMessage(state.currentTabId, ...)
SendMessageToContentScript ==
  \E r \in 1..Len(runs) :
  /\ runs[r].pc = "loop"
  /\ runs' = [runs EXCEPT ![r].sentTo = @ \cup {state.currentTabId}]
  /\ UNCHANGED <<state, completions, notRunVars>>

\* the user activates another tab: the service worker sends TAB_CHANGED and
\* the panel's listener stores the tab id
TabChanged ==
  /\ \E tabId \in (1..MaxTabs) \ {state.currentTabId} :
       state' = [state EXCEPT !.currentTabId = tabId]
  /\ UNCHANGED <<runs, completions, notRunVars>>

\* startAutomationLoop of call r ends: it throws, or finalizeExecution runs
\* up to the await of completeBackendSession (which returns at once when
\* state.sessionId is null)
LoopEnds ==
  \E r \in 1..Len(runs) :
  /\ runs[r].pc = "loop"
  /\ \E end \in {"success", "error", "stopped", "throw"} :
       /\ end = "stopped" => state.stopRequested
       /\ IF end = "throw" THEN catchBlock(r)
          ELSE /\ completions' = completeBackendSession(completions, state)
               /\ IF state.sessionId # 0
                    THEN /\ runs' = [runs EXCEPT ![r].pc = "finalize"]
                         /\ UNCHANGED state
                    ELSE /\ runs' = [runs EXCEPT ![r].pc = "done"]
                         /\ state' = resetUI(state)
  /\ UNCHANGED notRunVars

\* the request of finalizeExecution settles: state.sessionId = null, resetUI()
Finalized ==
  \E r \in 1..Len(runs) :
  /\ runs[r].pc = "finalize"
  /\ state' = resetUI([state EXCEPT !.sessionId = 0])
  /\ runs' = [runs EXCEPT ![r].pc = "done"]
  /\ UNCHANGED <<completions, notRunVars>>

\* the request of the catch block settles: state.sessionId = null
CatchCompleted ==
  \E r \in 1..Len(runs) :
  /\ runs[r].pc = "catchComplete"
  /\ state' = [state EXCEPT !.sessionId = 0]
  /\ runs' = [runs EXCEPT ![r].pc = "done"]
  /\ UNCHANGED <<completions, notRunVars>>

\* handleStop
PressStop ==
  /\ state.isExecuting /\ ~state.stopRequested
  /\ state' = [state EXCEPT !.stopRequested = TRUE]
  /\ UNCHANGED <<runs, completions, notRunVars>>

RunNext ==
  \/ PressExecute
  \/ PressStop
  \/ TabChanged
  \/ SendMessageToContentScript
  \/ SessionCreated
  \/ SetupDone
  \/ LoopEnds
  \/ Finalized
  \/ CatchCompleted

RunSpec == Init /\ [][RunNext]_vars

\* ------------------------------------------------------------------------
\* startAutomationLoop
\* ------------------------------------------------------------------------
\* (variant: the bound test is off by one)
loopContinuesInclusive(it) == it <= maxIterations

\* while (iteration < maxIterations)
loopContinues(it) == it < maxIterations

\* (variant: the flag is never looked at)
stopCheckNever(flag) == FALSE

\* (variant: the test is negated)
stopCheckInverted(flag) == ~flag

\* if (state.stopRequested) at the top of the body
stopCheck(flag) == flag

\* domCapture?.success && domCapture.data
captureOk(c) == c.kind = "ok"

\* (variant: the element count of the capture is not looked at)
navAcceptsEmpty(c) == c.kind = "ok"

\* post-navigation: result.success && result.data.elements && length > 0
navAccepts(c) == c.kind = "ok" /\ c.elems > 0

\* 800 * (captureAttempt - 1)
navWait(attempt) == NavBackoffStep * (attempt - 1)

\* (variant: a complete plan that carries a next action has it executed)
PlanVerdictRunsLast(kind) ==
  CASE kind = "none" -> "empty"
    [] kind = "complete" -> "success"
    [] kind = "actionless" -> "noaction"
    [] kind = "typeless" -> "throw"
    [] OTHER -> "execute"

\* what the loop does with the plan it received
PlanVerdict(kind) ==
  CASE kind = "none" -> "empty"
    [] kind \in {"complete", "completeWithAction"} -> "success"
    [] kind = "actionless" -> "noaction"
    [] kind = "typeless" -> "throw"
    [] OTHER -> "execute"

\* (variant: every failed result ends the loop, transient or not)
ResultVerdictNoRetry(res) ==
  IF ~res.hasSuccess THEN "malformed"
  ELSE IF ~res.success THEN "fatal"
  ELSE IF res.navigated THEN "navigation"
  ELSE "next"

\* (variant: every failed result is retried, transient or not)
ResultVerdictAlwaysRetry(res) ==
  IF ~res.hasSuccess THEN "malformed"
  ELSE IF ~res.success
    THEN IF res.dom >= 0 THEN "retryEmbedded" ELSE "retryCapture"
  ELSE IF res.navigated THEN "navigation"
  ELSE "next"

\* what the loop does with the result of executeActionOnPage
ResultVerdict(res) ==
  IF ~res.hasSuccess THEN "malformed"
  ELSE IF ~res.success
    THEN IF isTransient(res)
           THEN IF res.dom >= 0 THEN "retryEmbedded" ELSE "retryCapture"
           ELSE "fatal"
  ELSE IF res.navigated THEN "navigation"
  ELSE "next"

\* buildActionResultForBackend: the result of action number seq
buildActionResultForBackend(res, seq) == [success |-> res.success, seq |-> seq]

\* requestNextAction(dom, previousResultForBackend) is called
BeginRequest(dom) ==
  /\ pc' = "plan"
  /\ reqState' = "pending"
  /\ reqCalls' = 0
  /\ reqErr' = NoText
  /\ reqDom' = dom
  /\ nPlanRounds' = nPlanRounds + 1

\* top of the loop: bound, stop flag, then recapture or planning
LoopTop ==
  /\ pc = "loopTop"
  /\ IF ~loopContinues(iteration)
       THEN /\ Break(Outcome("error", <<"Reached", "iteration", "limit">>, "limit"))
            /\ UNCHANGED <<round, reqVars, nPlanRounds>>
       ELSE IF stopCheck(stopRequested)
         THEN /\ Break(Outcome("stopped", <<"Execution", "stopped", "by", "user">>, "stop"))
              /\ UNCHANGED <<round, reqVars, nPlanRounds>>
         ELSE /\ round' = round + 1
              /\ UNCHANGED outcome
              /\ IF currentDom = Null
                   THEN pc' = "recapture" /\ UNCHANGED <<reqVars, nPlanRounds>>
                   ELSE BeginRequest(currentDom)
  /\ UNCHANGED <<uiVars, iteration, currentDom, previousResultForBackend, actionPlan,
                 executionResult, execVars, navVars, nDispatched, nRetries, sent,
                 performedBy, stopRound, stopMid, dispAfterStop, sawComplete, plannerOnlyActions>>
  /\ UNCHANGED otherVars

\* if (!currentDom): delay(1000), captureDOMFromPage
Recapture ==
  /\ pc = "recapture"
  /\ \E c \in CaptureReplies :
       IF captureOk(c)
         THEN /\ currentDom' = Snap("capture", c.elems, nDispatched)
              /\ BeginRequest(currentDom')
              /\ UNCHANGED outcome
         ELSE /\ Break(Outcome("error", <<"Unable", "to", "capture", "DOM">>, "recapture"))
              /\ UNCHANGED <<currentDom, reqVars, nPlanRounds>>
  /\ UNCHANGED <<uiVars, iteration, previousResultForBackend, actionPlan,
                 executionResult, execVars, navVars, round, nDispatched,
                 nRetries, sent, performedBy, stopRound, stopMid, dispAfterStop,
                 sawComplete, plannerOnlyActions>>
  /\ UNCHANGED otherVars

\* requestNextAction returns the plan / throws the error
ReturnPlan(kind) ==
  /\ reqState' = "returned"
  /\ actionPlan' = kind
  /\ pc' = "planned"

ThrowPlan(m) ==
  /\ reqState' = "thrown"
  /\ reqErr' = m
  /\ pc' = "planned"
  /\ UNCHANGED actionPlan

\* requestNextAction: the first doRequest settles
Plan ==
  /\ pc = "plan"
  /\ \E resp \in PlannerResponses :
       LET r == doRequest(resp) IN
       /\ reqCalls' = reqCalls + 1
       /\ plannerOnlyActions' = (plannerOnlyActions /\ ~r.thrown /\ r.plan = "action")
       /\ IF ~r.thrown
            THEN ReturnPlan(r.plan) /\ UNCHANGED reqErr
            ELSE IF ~plannerTransient(r.msg)
              THEN ThrowPlan(r.msg)
              ELSE /\ pc' = "planRetryCapture"
                   /\ reqErr' = r.msg
                   /\ UNCHANGED <<reqState, actionPlan>>
  /\ UNCHANGED <<uiVars, reqDom, iteration, currentDom, previousResultForBackend,
                 outcome, executionResult, execVars, navVars, round, nPlanRounds,
                 nDispatched, nRetries, sent, performedBy, stopRound, stopMid,
                 dispAfterStop, sawComplete>>
  /\ UNCHANGED otherVars

\* requestNextAction: delay(1500), captureDOMFromPage for the retry
PlanRetryCapture ==
  /\ pc = "planRetryCapture"
  /\ \E c \in CaptureReplies :
       IF captureOk(c)
         THEN /\ reqDom' = Snap("capture", c.elems, nDispatched)
              /\ pc' = "planRetry"
              /\ UNCHANGED <<reqState, reqErr, actionPlan>>
         ELSE /\ ThrowPlan(reqErr)
              /\ UNCHANGED reqDom
  /\ UNCHANGED <<uiVars, iteration, currentDom, previousResultForBackend, outcome,
                 executionResult, reqCalls, execVars, navVars, histVars>>
  /\ UNCHANGED otherVars

\* requestNextAction: the second doRequest settles
PlanRetry ==
  /\ pc = "planRetry"
  /\ \E resp \in PlannerResponses :
       LET r == doRequest(resp) IN
       /\ reqCalls' = reqCalls + 1
       /\ plannerOnlyActions' = (plannerOnlyActions /\ ~r.thrown /\ r.plan = "action")
       /\ IF ~r.thrown
            THEN ReturnPlan(r.plan) /\ UNCHANGED reqErr
            ELSE ThrowPlan(reqErr)
  /\ UNCHANGED <<uiVars, reqDom, iteration, currentDom, previousResultForBackend,
                 outcome, executionResult, execVars, navVars, round, nPlanRounds,
                 nDispatched, nRetries, sent, performedBy, stopRound, stopMid,
                 dispAfterStop, sawComplete>>
  /\ UNCHANGED otherVars

\* the loop resumes after requestNextAction: lines 978-1019
HavePlan ==
  /\ pc = "planned"
  /\ reqState' = "idle" /\ reqCalls' = 0 /\ reqErr' = NoText /\ reqDom' = Null
  /\ sawComplete' = (sawComplete \/ (reqState = "returned" /\
                        actionPlan \in {"complete", "completeWithAction"}))
  /\ IF reqState = "thrown"
       THEN /\ Break(Outcome("error", reqErr, "planner"))
            /\ UNCHANGED <<uiVars, nDispatched, sent, performedBy, dispAfterStop>>
       ELSE LET v == PlanVerdict(actionPlan) IN
         CASE v = "empty" ->
                /\ Break(Outcome("error",
                        <<"Backend", "returned", "an", "empty", "action", "plan">>,
                        "plan"))
                /\ UNCHANGED <<uiVars, nDispatched, sent, performedBy, dispAfterStop>>
           [] v = "success" ->
                /\ Break(Outcome("success", <<"Goal", "achieved">>, "plan"))
                /\ UNCHANGED <<uiVars, nDispatched, sent, performedBy, dispAfterStop>>
           [] v = "noaction" ->
                /\ Break(Outcome("error",
                        <<"Backend", "did", "not", "provide", "a", "next", "action">>,
                        "plan"))
                /\ UNCHANGED <<uiVars, nDispatched, sent, performedBy, dispAfterStop>>
           [] v = "throw" ->
                /\ Catch(<<"Cannot", "read", "properties", "of", "undefined">>, sessionId)
                /\ UNCHANGED <<nDispatched, sent, performedBy, dispAfterStop>>
           [] OTHER ->
                /\ pc' = "execTop"
                /\ nDispatched' = nDispatched + 1
                /\ sent' = [f \in FrameIds |-> 0]
                /\ performedBy' = {}
                /\ dispAfterStop' = IF stopRequested THEN dispAfterStop + 1
                                    ELSE dispAfterStop
                /\ UNCHANGED <<uiVars, outcome>>
  /\ UNCHANGED <<iteration, currentDom, previousResultForBackend, actionPlan,
                 executionResult, execVars, navVars, round, nPlanRounds, nRetries,
                 stopRound, stopMid, plannerOnlyActions>>
  /\ UNCHANGED otherVars

\* ------------------------------------------------------------------------
\* executeActionOnPage
\* ------------------------------------------------------------------------
\* the model stops offering transient failures after MaxTransient replans
RetryBudget(r) ==
  \/ nRetries < MaxTransient
  \/ /\ r # Undefined
     /\ r # Rejected
     /\ (r.hasSuccess /\ ~r.success) => ~isTransient(r)

IsReply(r) == r # Undefined /\ r # Rejected

\* bookkeeping of one EXECUTE_ACTION message delivered to frame f
Delivered(f, r) ==
  /\ sent' = IF r = Rejected THEN sent ELSE [sent EXCEPT ![f] = @ + 1]
  /\ performedBy' = IF IsReply(r) /\ r.performed THEN performedBy \cup {f}
                    ELSE performedBy

\* executeActionOnPage returns res (or throws: res = Rejected)
ReturnResult(res) ==
  /\ executionResult' = res
  /\ response' = Null /\ frames' = 0 /\ frameIdx' = 0
  /\ pc' = "executed"

\* response.success === true, or a failure that is not "not found"
topIsFinal(r) ==
  \/ IsReply(r) /\ r.hasSuccess /\ r.success
  \/ IsReply(r) /\ ~isElementNotFound(r)

\* the top-frame attempt settles (lines 862-878)
ExecTop ==
  /\ pc = "execTop"
  /\ \E r \in TopResponses :
       /\ RetryBudget(r)
       /\ Delivered(0, r)
       /\ IF r = Rejected \/ topIsFinal(r)
            THEN ReturnResult(r)
            ELSE /\ response' = r
                 /\ \E n \in 1..MaxFrames : frames' = n
                 /\ frameIdx' = 0
                 /\ pc' = "execFrames"
                 /\ UNCHANGED executionResult
  /\ UNCHANGED <<uiVars, iteration, currentDom, previousResultForBackend, outcome,
                 actionPlan, reqVars, navVars, round, nPlanRounds, nDispatched,
                 nRetries, stopRound, stopMid, dispAfterStop, sawComplete, plannerOnlyActions>>
  /\ UNCHANGED otherVars

\* the attempt in frame frames[frameIdx] settles (lines 879-903)
ExecFrame ==
  /\ pc = "execFrames"
  /\ \E r \in FrameResponses :
       /\ Delivered(frameIdx, r)
       /\ IF IsReply(r) /\ r.success
            THEN ReturnResult(r)
            ELSE IF frameIdx + 1 < frames
              THEN /\ frameIdx' = frameIdx + 1
                   /\ UNCHANGED <<pc, response, frames, executionResult>>
              ELSE ReturnResult(SweepResult(response))
  /\ UNCHANGED <<uiVars, iteration, currentDom, previousResultForBackend, outcome,
                 actionPlan, reqVars, navVars, round, nPlanRounds, nDispatched,
                 nRetries, stopRound, stopMid, dispAfterStop, sawComplete, plannerOnlyActions>>
  /\ UNCHANGED otherVars

\* the loop resumes after executeActionOnPage: lines 1020-1182
HandleResult ==
  /\ pc = "executed"
  /\ UNCHANGED execVars
  /\ sent' = [f \in FrameIds |-> 0] /\ performedBy' = {}
  /\ LET res == executionResult IN
     IF res = Rejected
       THEN /\ Break(Outcome("error", <<"Could", "not", "establish", "connection">>, "send"))
            /\ UNCHANGED <<executionResult, previousResultForBackend, currentDom,
                           iteration, nRetries, captureAttempt, lastDelay>>
       ELSE LET v == ResultVerdict(res) IN
         CASE v = "malformed" ->
                /\ Break(Outcome("error",
                        <<"Content", "script", "returned", "an", "unexpected", "response">>,
                        "malformed"))
                /\ UNCHANGED <<executionResult, previousResultForBackend, currentDom,
                               iteration, nRetries, captureAttempt, lastDelay>>
           [] v = "fatal" ->
                /\ Break(Outcome("error", FailureMessage(res), "execution"))
                /\ previousResultForBackend' = buildActionResultForBackend(res, nDispatched)
                /\ UNCHANGED <<executionResult, currentDom, iteration, nRetries,
                               captureAttempt, lastDelay>>
           [] v = "retryEmbedded" ->
                /\ previousResultForBackend' = buildActionResultForBackend(res, nDispatched)
                /\ currentDom' = Snap("embedded", res.dom, nDispatched)
                /\ nRetries' = nRetries + 1
                /\ pc' = "loopTop"
                /\ executionResult' = Null
                /\ UNCHANGED <<outcome, iteration, captureAttempt, lastDelay>>
           [] v = "retryCapture" ->
                /\ previousResultForBackend' = buildActionResultForBackend(res, nDispatched)
                /\ pc' = "transientCapture"
                /\ UNCHANGED <<executionResult, outcome, currentDom, iteration,
                               nRetries, captureAttempt, lastDelay>>
           [] v = "navigation" ->
                /\ previousResultForBackend' = buildActionResultForBackend(res, nDispatched)
                /\ pc' = "navSettle"
                /\ captureAttempt' = 0
                /\ lastDelay' = 0
                /\ executionResult' = Null
                /\ UNCHANGED <<outcome, currentDom, iteration, nRetries>>
           [] OTHER ->
                /\ previousResultForBackend' = buildActionResultForBackend(res, nDispatched)
                /\ currentDom' = IF res.dom >= 0
                                   THEN Snap("embedded", res.dom, nDispatched)
                                   ELSE Null
                /\ iteration' = iteration + 1
                /\ pc' = "loopTop"
                /\ executionResult' = Null
                /\ UNCHANGED <<outcome, nRetries, captureAttempt, lastDelay>>
  /\ UNCHANGED <<uiVars, actionPlan, reqVars, round, nPlanRounds, nDispatched,
                 stopRound, stopMid, dispAfterStop, sawComplete, plannerOnlyActions,
                 result>>
  /\ UNCHANGED otherVars

\* transient failure without new_dom: delay(1000), captureDOMFromPage (1066-1093)
TransientCapture ==
  /\ pc = "transientCapture"
  /\ \E c \in CaptureReplies :
       IF captureOk(c)
         THEN /\ currentDom' = Snap("capture", c.elems, nDispatched)
              /\ nRetries' = nRetries + 1
              /\ pc' = "loopTop"
              /\ executionResult' = Null
              /\ UNCHANGED outcome
         ELSE /\ Break(Outcome("error", FailureMessage(executionResult), "execution"))
              /\ UNCHANGED <<currentDom, nRetries, executionResult>>
  /\ UNCHANGED <<uiVars, iteration, previousResultForBackend, actionPlan,
                 reqVars, execVars, navVars, round, nPlanRounds, nDispatched, sent,
                 performedBy, stopRound, stopMid, dispAfterStop, sawComplete, plannerOnlyActions>>
  /\ UNCHANGED otherVars

\* navigation: delay(2500), then the first capture attempt is issued
NavSettle ==
  /\ pc = "navSettle"
  /\ lastDelay' = NavSettleDelay
  /\ captureAttempt' = 1
  /\ pc' = "navCapture"
  /\ UNCHANGED <<uiVars, loopVars, reqVars, execVars, histVars, result>>
  /\ UNCHANGED otherVars

\* navigation: capture attempt number captureAttempt settles (1147-1178)
NavCapture ==
  /\ pc = "navCapture"
  /\ \E c \in CaptureReplies :
       IF navAccepts(c)
         THEN /\ currentDom' = Snap("capture", c.elems, nDispatched)
              /\ iteration' = iteration + 1
              /\ pc' = "loopTop"
              /\ captureAttempt' = 0 /\ lastDelay' = 0 /\ result' = Null
         ELSE IF captureAttempt < maxCaptureAttempts
           THEN /\ captureAttempt' = captureAttempt + 1
                /\ pc' = "navBackoff"
                /\ result' = c
                /\ UNCHANGED <<currentDom, iteration, lastDelay>>
           ELSE \* all attempts refused; captureAttempt keeps their number
                /\ currentDom' = Null
                /\ iteration' = iteration + 1
                /\ pc' = "loopTop"
                /\ result' = Null
                /\ UNCHANGED <<captureAttempt, lastDelay>>
  /\ UNCHANGED <<uiVars, previousResultForBackend, outcome, actionPlan,
                 executionResult, reqVars, execVars, histVars>>
  /\ UNCHANGED otherVars

\* navigation: delay(800 * (captureAttempt - 1)) before a further attempt
NavBackoff ==
  /\ pc = "navBackoff"
  /\ lastDelay' = navWait(captureAttempt)
  /\ pc' = "navCapture"
  /\ result' = Null
  /\ UNCHANGED <<uiVars, loopVars, reqVars, execVars, captureAttempt, histVars>>
  /\ UNCHANGED otherVars

\* ------------------------------------------------------------------------
\* Specification
\* ------------------------------------------------------------------------
\* steps of the running session (continuations of awaits)
SessionStep ==
  \/ CreateSession \/ InitialCapture \/ SendDOMToBackend \/ CatchComplete
  \/ LoopTop \/ Recapture \/ Plan \/ PlanRetryCapture \/ PlanRetry \/ HavePlan
  \/ ExecTop \/ ExecFrame \/ HandleResult \/ TransientCapture
  \/ NavSettle \/ NavCapture \/ NavBackoff
  \/ FinalizeExecution

Next == HandleExecute \/ HandleStop \/ SessionStep

Spec == Init /\ [][Next]_vars

\* every awaited call settles and its continuation runs
FairSpec == Spec /\ WF_vars(SessionStep)

\* ------------------------------------------------------------------------
\* The message transport: captureDOMFromPage over sendMessageToContentScript
\* ------------------------------------------------------------------------
\* chrome.runtime.lastError messages of an unreachable content script:
\* no receiver, the page moved into the back/forward cache, the port closed
Unreachable ==
  { <<"Could", "not", "establish", "connection.", "Receiving", "end", "does",
      "not", "exist.">>,
    <<"The", "page", "keeping", "the", "extension", "port", "is", "moved",
      "into", "back/forward", "cache,", "so", "the", "message", "channel", "is",
      "closed.">>,
    <<"The", "message", "port", "closed", "before", "a", "response", "was",
      "received.">> }

\* sendMessageToContentScript: the test that lets the catch block retry
retriesAfter(err) ==
  /\ err # NoText
  /\ includes(err, <<"Could", "not", "establish", "connection.", "Receiving",
                     "end", "does", "not", "exist.">>)

\* reject(new Error(message)): no response reaches the caller
RejectedWith(e) ==
  [err |-> e,
   res |-> [defined |-> FALSE, success |-> FALSE, data |-> FALSE,
            isArray |-> FALSE, elements |-> <<>>]]

\* one attempt(): resolved with the response the callback of
\* chrome.tabs.sendMessage sees, or rejected with lastError
AttemptOutcomes ==
  LET reply(def, s, d, arr, els) ==
        [defined |-> def, success |-> s, data |-> d, isArray |-> arr,
         elements |-> els]
      lists == UNION { [1..n -> {"u1", "u2"}] : n \in 0..MaxFrameElems }
      answers ==
        { reply(FALSE, FALSE, FALSE, FALSE, <<>>),
          reply(TRUE, FALSE, FALSE, FALSE, <<>>),
          reply(TRUE, TRUE, FALSE, FALSE, <<>>),
          reply(TRUE, TRUE, TRUE, FALSE, <<>>) }
        \cup { reply(TRUE, TRUE, TRUE, TRUE, e) : e \in lists }
  IN { [err |-> NoText, res |-> r] : r \in answers }
       \cup { RejectedWith(e) : e \in Unreachable }

\* what getAllFramesSafe can report: the top frame 0 is always in the list
FrameLists ==
  { f \in UNION { [1..n -> 0..(MaxCaptureFrames - 1)] : n \in 1..MaxCaptureFrames } :
      /\ \E i \in 1..Len(f) : f[i] = 0
      /\ \A i, j \in 1..Len(f) : i # j => f[i] # f[j] }

\* res && res.success && res.data
frameAnswered(o) ==
  o.err = NoText /\ o.res.defined /\ o.res.success /\ o.res.data

\* merged.elements.push(...elems) for every r of results, in order, with
\* elems = r.data.elements.map(el => ({...el, _frameId: r.frameId}))
RECURSIVE pushAll(_)
pushAll(rs) ==
  LET r == Head(rs)
      tagged == IF r.data.isArray
                  THEN [i \in 1..Len(r.data.elements) |->
                          [uid |-> r.data.elements[i], frameId |-> r.frameId]]
                  ELSE <<>>
  IN IF rs = <<>> THEN <<>> ELSE tagged \o pushAll(Tail(rs))

\* variant: the top frame's elements are put first
mergeElementsTopFirst(rs) ==
  pushAll(SelectSeq(rs, LAMBDA r : r.frameId = 0)
          \o SelectSeq(rs, LAMBDA r : r.frameId # 0))
mergeElements(rs) == pushAll(rs)

\* top = results.find(r => r.frameId === 0) || results[0]
merge(rs) ==
  [merged |-> TRUE, success |-> TRUE,
   top |-> IF \E i \in 1..Len(rs) : rs[i].frameId = 0 THEN 0 ELSE rs[1].frameId,
   elements |-> mergeElements(rs), elementCount |-> Len(mergeElements(rs)),
   total |-> Len(mergeElements(rs))]

\* a send has finished with outcome o after n attempts and k injections
EndSend(o, n, k) ==
  /\ lastSend' = [attempts |-> n, injections |-> k,
                  firstError |-> IF firstError # NoText THEN firstError ELSE o.err,
                  thrown |-> o.err # NoText, err |-> o.err]
  /\ attempts' = 0 /\ injections' = 0 /\ firstError' = NoText
  /\ IF scope \in {"single", "fallback"}
       THEN /\ returned' = o /\ cpc' = "done"
            /\ UNCHANGED <<scope, fi, results, answered>>
       ELSE /\ answered' = Append(answered, [frameId |-> frameList[fi], out |-> o])
            /\ results' = IF frameAnswered(o)
                            THEN Append(results, [frameId |-> frameList[fi],
                                                  data |-> o.res])
                            ELSE results
            /\ IF fi < Len(frameList)
                 THEN /\ fi' = fi + 1 /\ cpc' = "attempt"
                      /\ UNCHANGED <<scope, returned>>
               ELSE IF results' = <<>>
                 THEN /\ scope' = "fallback" /\ cpc' = "attempt"
                      /\ UNCHANGED <<fi, returned>>
               ELSE /\ returned' = [err |-> NoText, res |-> merge(results')]
                    /\ cpc' = "done"
                    /\ UNCHANGED <<scope, fi>>

\* the panel asks for a capture
CaptureDOMFromPage ==
  /\ cpc \in {"idle", "done"}
  /\ \E t \in {0, 1} : currentTabId' = t
  /\ cpc' = "getFrames"
  /\ frameList' = <<>> /\ scope' = "none" /\ fi' = 0 /\ results' = <<>>
  /\ returned' = Null /\ lastSend' = Null /\ answered' = <<>>
  /\ UNCHANGED <<attempts, injections, firstError, notSendVars>>

GetAllFramesSafe ==
  /\ cpc = "getFrames"
  /\ \E f \in FrameLists :
       /\ currentTabId = 0 => f = <<0>>
       /\ frameList' = f
       /\ IF Len(f) <= 1 THEN scope' = "single" /\ fi' = 0
                         ELSE scope' = "sweep" /\ fi' = 1
  /\ cpc' = "attempt"
  /\ UNCHANGED <<currentTabId, results, attempts, injections, firstError,
                 returned, lastSend, answered, notSendVars>>

\* sendMessageToContentScript up to the outcome of the first attempt()
Attempt ==
  /\ cpc = "attempt"
  /\ IF currentTabId = 0
       THEN EndSend(RejectedWith(<<"No", "active", "tab", "available">>), 0, 0)
       ELSE \E o \in AttemptOutcomes :
              IF retriesAfter(o.err)
                THEN /\ cpc' = "inject" /\ attempts' = 1 /\ firstError' = o.err
                     /\ UNCHANGED <<injections, scope, fi, results, returned,
                                    lastSend, answered>>
                ELSE EndSend(o, 1, 0)
  /\ UNCHANGED <<currentTabId, frameList, notSendVars>>

\* injectContentScripts: chrome.scripting.executeScript resolves or rejects
InjectContentScripts ==
  /\ cpc = "inject"
  /\ \E ok \in BOOLEAN :
       IF ok THEN /\ cpc' = "delay" /\ injections' = injections + 1
                  /\ UNCHANGED <<attempts, firstError, scope, fi, results,
                                 returned, lastSend, answered>>
             ELSE EndSend(RejectedWith(<<"Cannot", "inject", "scripts", "into",
                                         "this", "page">>),
                          attempts, injections + 1)
  /\ UNCHANGED <<currentTabId, frameList, notSendVars>>

\* await delay(150)
InjectDelay ==
  /\ cpc = "delay"
  /\ cpc' = "retry"
  /\ UNCHANGED <<currentTabId, frameList, scope, fi, results, attempts,
                 injections, firstError, returned, lastSend, answered, notSendVars>>

\* return await attempt(): the second and last send
Retry ==
  /\ cpc = "retry"
  /\ \E o \in AttemptOutcomes : EndSend(o, attempts + 1, injections)
  /\ UNCHANGED <<currentTabId, frameList, notSendVars>>

\* the frame never answers: the callback of chrome.tabs.sendMessage is never
\* invoked, so the promise of attempt() stays pending (no timeout is set)
NeverAnswers ==
  /\ (cpc = "attempt" /\ currentTabId # 0) \/ cpc = "retry"
  /\ cpc' = "pending"
  /\ UNCHANGED <<currentTabId, frameList, scope, fi, results, attempts,
                 injections, firstError, returned, lastSend, answered, notSendVars>>

TransportNext ==
  CaptureDOMFromPage \/ GetAllFramesSafe \/ Attempt \/ InjectContentScripts
    \/ InjectDelay \/ Retry \/ NeverAnswers

TransportSpec == Init /\ [][TransportNext]_vars

\* callbacks that are invoked and timers that fire are taken in the end
TransportFairSpec == TransportSpec /\ WF_vars(TransportNext)

\* ------------------------------------------------------------------------
\* The page of one frame, captureDOM and the uid registry
\* (dom-extractor.js, uid-generator.js)
\* ------------------------------------------------------------------------
\* identifying attributes of a page element ("" = attribute absent):
\* id, name, data-testid, data-test and the element's text
\* (a plain element, one with text, with a name, with an id, with data-test,
\* with an id and a name)
Profiles ==
  LET Profile(i, n, ti, t, x) ==
        [id |-> i, name |-> n, testid |-> ti, test |-> t, text |-> x]
  IN { Profile("", "", "", "", ""), Profile("", "", "", "", "x"),
       Profile("", "n", "", "", ""), Profile("a", "", "", "", ""),
       Profile("", "", "", "t", ""), Profile("a", "n", "", "", "") }

\* elements are the keys 1..MaxPageElems; 0 stands for null (no element)
\* position of an attached element among its siblings
PosOf(pg, k) == CHOOSE i \in 1..Len(pg) : pg[i] = k

\* variant: a connected element is accepted whatever its style
isElementValidIfConnected(pg, hid, k) ==
  k # 0 /\ (\E i \in 1..Len(pg) : pg[i] = k)
\* isElementValid: connected and neither display:none nor visibility:hidden
isElementValid(pg, hid, k) ==
  k # 0 /\ (\E i \in 1..Len(pg) : pg[i] = k) /\ k \notin hid

\* getInteractiveElements: the visible elements in document order
getInteractiveElements(pg, hid) == SelectSeq(pg, LAMBDA k : k \notin hid)

\* generateUID(element, index)
generateUID(el, pos, index) ==
  LET UidOf(kind, v, x, p, i) ==
        [kind |-> kind, v |-> v, text |-> x, pos |-> p, index |-> i]
  IN
  IF el.testid # "" THEN UidOf("test", el.testid, "", 0, 0)
  ELSE IF el.test # "" THEN UidOf("test", el.test, "", 0, 0)
  ELSE IF el.id # "" THEN UidOf("id", el.id, "", 0, 0)
  ELSE IF el.name # "" THEN UidOf("name", el.name, "", 0, 0)
  ELSE UidOf("hash", "", el.text, pos, index)


\* a CSS selector or an XPath: by attribute value, or by sibling position
\* (p = 0: the bare tag, which matches every element)
Locator(by, v, p) == [by |-> by, v |-> v, p |-> p]

\* generateSelector(element)
generateSelector(el, pos, siblings) ==
  IF el.id # "" THEN Locator("id", el.id, 0)
  ELSE IF el.name # "" THEN Locator("name", el.name, 0)
  ELSE IF el.testid # "" THEN Locator("testid", el.testid, 0)
  ELSE IF siblings > 1 THEN Locator("nth", "", pos)
  ELSE Locator("nth", "", 0)

\* generateXPath(element)
generateXPath(el, pos) ==
  IF el.id # "" THEN Locator("id", el.id, 0) ELSE Locator("nth", "", pos)

matches(els, pg, k, loc) ==
  CASE loc.by = "id" -> els[k].id = loc.v
    [] loc.by = "name" -> els[k].name = loc.v
    [] loc.by = "testid" -> els[k].testid = loc.v
    [] loc.by = "test" -> els[k].test = loc.v
    [] loc.by = "nth" -> loc.p = 0 \/ PosOf(pg, k) = loc.p
    [] OTHER -> FALSE

\* document.querySelector / document.evaluate(FIRST_ORDERED_NODE_TYPE)
querySelector(els, pg, loc) ==
  IF \E i \in 1..Len(pg) : matches(els, pg, pg[i], loc)
    THEN pg[CHOOSE i \in 1..Len(pg) :
              /\ matches(els, pg, pg[i], loc)
              /\ \A j \in 1..(i - 1) : ~matches(els, pg, pg[j], loc)]
    ELSE 0

\* findByAttributes(attributes, tag)
findByAttributes(els, pg, attrs) ==
  IF attrs.id # "" THEN querySelector(els, pg, Locator("id", attrs.id, 0))
  ELSE IF attrs.name # "" THEN querySelector(els, pg, Locator("name", attrs.name, 0))
  ELSE IF attrs.testid # "" THEN querySelector(els, pg, Locator("testid", attrs.testid, 0))
  ELSE IF attrs.test # ""
            /\ Cardinality({ i \in 1..Len(pg) :
                   matches(els, pg, pg[i], Locator("test", attrs.test, 0)) }) = 1
    THEN querySelector(els, pg, Locator("test", attrs.test, 0))
  ELSE 0

\* findByText(text, tag): textContent equal, else one text containing the other
findByText(els, pg, text) ==
  LET textMatches(x, y) == x = y \/ x = "" \/ y = "" IN
  IF \E i \in 1..Len(pg) : els[pg[i]].text = text
    THEN pg[CHOOSE i \in 1..Len(pg) :
              /\ els[pg[i]].text = text
              /\ \A j \in 1..(i - 1) : els[pg[j]].text # text]
  ELSE IF \E i \in 1..Len(pg) : textMatches(els[pg[i]].text, text)
    THEN pg[CHOOSE i \in 1..Len(pg) :
              /\ textMatches(els[pg[i]].text, text)
              /\ \A j \in 1..(i - 1) : ~textMatches(els[pg[j]].text, text)]
  ELSE 0

\* variant: an entry that exists is kept as it is
registerUIDOnce(reg, uid, selectors, now) ==
  [u \in DOMAIN reg \cup {uid} |->
     IF u \in DOMAIN reg THEN reg[u]
     ELSE [selector |-> selectors.selector, xpath |-> selectors.xpath,
           attributes |-> selectors.attributes, text |-> selectors.text,
           timestamp |-> now, accessCount |-> 0]]
\* registerUID(uid, selectors): uidRegistry.set(uid, {...selectors,
\* timestamp: Date.now(), accessCount: 0})
registerUID(reg, uid, selectors, now) ==
  [u \in DOMAIN reg \cup {uid} |->
     IF u = uid
       THEN [selector |-> selectors.selector, xpath |-> selectors.xpath,
             attributes |-> selectors.attributes, text |-> selectors.text,
             timestamp |-> now, accessCount |-> 0]
       ELSE reg[u]]

\* maxAge of cleanupRegistry: 30 minutes, one period of the clock
maxAge == 1
\* variant: the sweep looks at the age only
cleanupRegistryByAge(reg, now) ==
  [u \in {v \in DOMAIN reg : ~(now - reg[v].timestamp > maxAge)} |-> reg[u]]
\* cleanupRegistry(): deletes the entries older than maxAge that were never
\* resolved
cleanupRegistry(reg, now) ==
  [u \in {v \in DOMAIN reg :
            ~(now - reg[v].timestamp > maxAge /\ reg[v].accessCount = 0)} |->
     reg[u]]

\* captureDOM: serializeElement over the interactive elements, in order,
\* registering the locators it records for each element
RECURSIVE serializeFrom(_, _, _, _, _, _)
serializeFrom(els, pg, inter, i, reg, now) ==
  LET el == els[inter[i]]
      pos == PosOf(pg, inter[i])
      selectors == [selector |-> generateSelector(el, pos, Len(pg)),
                    xpath |-> generateXPath(el, pos),
                    attributes |-> el, text |-> el.text]
  IN IF i > Len(inter) THEN reg
     ELSE serializeFrom(els, pg, inter, i + 1,
                        registerUID(reg, generateUID(el, pos, i - 1),
                                    selectors, now),
                        now)

elementRecords(els, pg, inter) ==
  [i \in 1..Len(inter) |->
     [uid |-> generateUID(els[inter[i]], PosOf(pg, inter[i]), i - 1),
      element |-> inter[i]]]

\* getElementByUID(uid): selector, XPath, attributes, text, each accepted
\* only when the candidate is connected and visible
getElementByUID(els, pg, hid, reg, uid) ==
  IF uid \notin DOMAIN reg THEN 0
  ELSE LET entry == reg[uid]
           bySelector == querySelector(els, pg, entry.selector)
           byXPath == querySelector(els, pg, entry.xpath)
           byAttributes == findByAttributes(els, pg, entry.attributes)
           byText == findByText(els, pg, entry.text)
       IN  IF isElementValid(pg, hid, bySelector) THEN bySelector
           ELSE IF isElementValid(pg, hid, byXPath) THEN byXPath
           ELSE IF isElementValid(pg, hid, byAttributes) THEN byAttributes
           ELSE IF entry.text # "" /\ isElementValid(pg, hid, byText) THEN byText
           ELSE 0

\* every page of at most MaxPageElems elements, all distinct
UidInit ==
  /\ PanelInit /\ TransportIdle /\ ExecutorIdle /\ DomIdle /\ WaitIdle
  /\ ListenerIdle /\ RunIdle
  /\ elements \in [1..MaxPageElems -> Profiles]
  /\ page \in { pg \in UNION { [1..n -> 1..MaxPageElems] : n \in 0..MaxPageElems } :
                  \A i, j \in 1..Len(pg) : i # j => pg[i] # pg[j] }
  /\ hidden = {}
  /\ uidRegistry = <<>>
  /\ snapshot = Null
  /\ lookups = <<>>
  /\ mutations = 0
  /\ clock = 0

\* the frame's content script answers CAPTURE_DOM (or recaptures on its own)
CaptureDOM ==
  /\ LET inter == getInteractiveElements(page, hidden)
         recs == elementRecords(elements, page, inter)
     IN  /\ uidRegistry' =
               serializeFrom(elements, page, inter, 1, uidRegistry, clock)
         /\ snapshot' = [timestamp |-> clock, elementCount |-> Len(inter),
                          elements |-> recs]
  /\ UNCHANGED notUidVars
  /\ UNCHANGED <<elements, page, hidden, lookups, mutations, clock>>

\* getElementByUID(uid), for a uid some capture handed out or for one that
\* none did; lookups notes el as one more result of resolving uid
GetElementByUID ==
  /\ \E uid \in DOMAIN uidRegistry \cup DOMAIN lookups
                 \cup {[kind |-> "none", v |-> "", text |-> "", pos |-> 0,
                        index |-> 0]} :
       /\ uid \in DOMAIN uidRegistry => uidRegistry[uid].accessCount < MaxAccess
       /\ LET el == getElementByUID(elements, page, hidden, uidRegistry, uid)
          IN  lookups' =
                [u \in DOMAIN lookups \cup {uid} |->
                   IF u = uid
                     THEN (IF u \in DOMAIN lookups THEN lookups[u] ELSE {})
                            \cup {el}
                     ELSE lookups[u]]
       /\ uidRegistry' = IF uid \in DOMAIN uidRegistry
                           THEN [uidRegistry EXCEPT ![uid].accessCount = @ + 1]
                           ELSE uidRegistry
  /\ UNCHANGED notUidVars
  /\ UNCHANGED <<elements, page, hidden, snapshot, mutations, clock>>

\* the page changes its structure: an element is inserted or removed
Insert ==
  /\ mutations < MaxMutations
  /\ \E k \in 1..MaxPageElems, front \in BOOLEAN :
       /\ (\A i \in 1..Len(page) : page[i] # k)
       /\ page' = IF front THEN <<k>> \o page ELSE Append(page, k)
  /\ mutations' = mutations + 1
  /\ lookups' = <<>>
  /\ UNCHANGED notUidVars
  /\ UNCHANGED <<elements, hidden, uidRegistry, snapshot, clock>>

Remove ==
  /\ mutations < MaxMutations
  /\ \E k \in 1..MaxPageElems :
       /\ (\E i \in 1..Len(page) : page[i] = k)
       /\ page' = SelectSeq(page, LAMBDA j : j # k)
       /\ hidden' = hidden \ {k}
  /\ mutations' = mutations + 1
  /\ lookups' = <<>>
  /\ UNCHANGED notUidVars
  /\ UNCHANGED <<elements, uidRegistry, snapshot, clock>>

\* an element is hidden (display: none) or shown again
ToggleHidden ==
  /\ mutations < MaxMutations
  /\ \E k \in 1..MaxPageElems :
       /\ (\E i \in 1..Len(page) : page[i] = k)
       /\ hidden' = IF k \in hidden THEN hidden \ {k} ELSE hidden \cup {k}
  /\ mutations' = mutations + 1
  /\ lookups' = <<>>
  /\ UNCHANGED notUidVars
  /\ UNCHANGED <<elements, page, uidRegistry, snapshot, clock>>

UidNext == CaptureDOM \/ GetElementByUID \/ Insert \/ Remove \/ ToggleHidden

UidSpec == UidInit /\ [][UidNext]_vars

\* time passes
Tick ==
  /\ clock < MaxClock
  /\ clock' = clock + 1
  /\ UNCHANGED notUidVars
  /\ UNCHANGED <<elements, page, hidden, uidRegistry, snapshot, lookups,
                 mutations>>

\* the interval timer of uid-generator.js fires
CleanupRegistry ==
  /\ uidRegistry' = cleanupRegistry(uidRegistry, clock)
  /\ UNCHANGED notUidVars
  /\ UNCHANGED <<elements, page, hidden, snapshot, lookups, mutations, clock>>

\* the registry over time, on a page that keeps its structure
RegistryNext == CaptureDOM \/ GetElementByUID \/ Tick \/ CleanupRegistry

RegistrySpec == UidInit /\ [][RegistryNext]_vars

\* ------------------------------------------------------------------------
\* The in-page executor: handleExecuteAction, executeAction,
\* resolveElementWithRetry, navigateToUrl (content-script.js)
\* ------------------------------------------------------------------------
maxRetries == 10
retryDelay == 100

\* the wire-level enumeration of action types (README, Features)
Enumeration ==
  {"click", "type", "scroll", "wait", "navigate", "go_to_url", "open_url",
   "m_go_to_url", "select", "select_autocomplete", "hover", "press", "check",
   "uncheck", "submit", "wait_for_selector", "wait_for_url_change",
   "wait_network_idle"}
NavigateFamily == {"navigate", "go_to_url", "open_url", "m_go_to_url"}

\* message.action: null, or a descriptor (type "" = no type; uid: has a
\* target_uid; value: "none", a usable URL "url", an unparsable one "bad")
ActionDescriptors ==
  LET Descriptor(t, str, u, v) ==
        [isNull |-> FALSE, type |-> t, typeIsString |-> str, uid |-> u,
         value |-> v]
  IN
  { [isNull |-> TRUE, type |-> "", typeIsString |-> FALSE, uid |-> FALSE,
     value |-> "none"],
    Descriptor("5", FALSE, FALSE, "none") }
  \cup { Descriptor(t, TRUE, u, "none") :
           t \in (Enumeration \ NavigateFamily) \cup {"", "Click", "drag"},
           u \in BOOLEAN }
  \cup { Descriptor(t, TRUE, u, v) :
           t \in NavigateFamily, u \in BOOLEAN, v \in {"none", "url", "bad"} }

\* action.type.toLowerCase()
actionTypeOf(a) == toLowerCase(<<a.type>>)[1]


\* a result of executeAction; on: what the handler acted on
\* ("target": the resolution element, "other": a substitute, "none");
\* live: the resolution element, when the handler acted on it, was still
\* attached and shown as getElementByUID had found it
Result(s, e, pend, on) ==
  [success |-> s, error |-> e, navigationPending |-> pend, targetUrl |-> pend,
   on |-> on, live |-> TRUE]
Failure(e) == Result(FALSE, e, FALSE, "none")
\* [thrown |-> TRUE]: the handler threw instead of returning

\* variant: the location is assigned inside navigateToUrl
navigateToUrlAtOnce(a) ==
  IF a.value = "none"
    THEN [result |-> Failure(<<"No", "URL", "provided", "for", "navigation">>),
          timer |-> FALSE, now |-> FALSE]
  ELSE IF a.value = "bad"
    THEN [result |-> Failure(<<"Invalid", "URL">>), timer |-> FALSE,
          now |-> FALSE]
  ELSE [result |-> Result(TRUE, NoText, TRUE, "none"), timer |-> FALSE,
        now |-> TRUE]
\* navigateToUrl(action, baseResult): the result and whether the timer is set
navigateToUrl(a) ==
  IF a.value = "none"
    THEN [result |-> Failure(<<"No", "URL", "provided", "for", "navigation">>),
          timer |-> FALSE, now |-> FALSE]
  ELSE IF a.value = "bad"
    THEN [result |-> Failure(<<"Invalid", "URL">>), timer |-> FALSE,
          now |-> FALSE]
  ELSE [result |-> Result(TRUE, NoText, TRUE, "none"), timer |-> TRUE,
        now |-> FALSE]

\* the switch of executeAction: the results the handler of actionType can
\* return when resolveTargetElement gave found (an element) or not. The
\* handlers use the element as resolved; "type" (await sleep(100) and
\* sleep(150) on an autocomplete field before typeIntoElement) and "press"
\* (await sleep(50) after focus() before keyPress) wait in between, and the
\* page may detach or hide the element while they wait.
Handlers(actionType, found) ==
  LET ok(on) == Result(TRUE, NoText, FALSE, on)
      afterWait(r) == { [r EXCEPT !.live = l] : l \in BOOLEAN }
      notFound == Failure(<<"Element", "not", "found", "for", "UID">>)
      notCheckbox == Failure(<<"Target", "is", "not", "a", "checkbox">>)
      noForm == Failure(<<"No", "form", "found", "to", "submit">>)
      noSelect == Failure(<<"No", "select", "target", "or", "autocomplete",
                            "option", "found">>)
      optionNotFound == Failure(<<"Option", "not", "found">>)
  IN
  CASE actionType = "click" ->
         IF found THEN { ok("target"), Result(FALSE, NoText, FALSE, "target") }
                  ELSE { notFound }
    [] actionType = "type" ->
         IF found THEN UNION { afterWait(Result(b, NoText, FALSE, "target")) :
                                 b \in BOOLEAN }
                  ELSE { notFound }
                       \cup { Result(b, NoText, FALSE, "other") : b \in BOOLEAN }
    [] actionType = "scroll" ->
         IF found THEN { ok("target"), [thrown |-> TRUE] }
                  ELSE { ok("other") }
    [] actionType = "wait" -> { ok("none") }
    [] actionType = "hover" ->
         IF found THEN { ok("target") } ELSE { notFound }
    [] actionType = "press" ->
         IF found THEN afterWait(ok("target")) ELSE { ok("other") }
    [] actionType = "select" ->
         IF found THEN { ok("target"), optionNotFound }
                  ELSE { ok("other"), noSelect }
    [] actionType = "select_autocomplete" -> { ok("other"), optionNotFound }
    [] actionType \in {"check", "uncheck"} ->
         IF found THEN { ok("target"), notCheckbox } ELSE { notCheckbox }
    [] actionType = "submit" ->
         IF found THEN { ok("target"), ok("other"), noForm }
                  ELSE { ok("other"), noForm }
    [] actionType = "wait_for_selector" ->
         { Result(b, NoText, FALSE, "none") : b \in BOOLEAN }
    [] OTHER -> { Failure(<<"Unsupported", "action", "type">>) }

\* resolveElementWithRetry: the for loop runs while attempt < maxRetries,
\* variant: the loop never gives up
retryContinuesForever(attempt) == attempt >= 0
retryContinues(attempt) == attempt < maxRetries

\* handleExecuteAction: is captureDOM called before the response is built
\* variant: the capture is skipped whenever the page navigated
capturesAfterUnlessNavigated(res, nav) == ~nav
capturesAfter(res, nav) == ~res.navigationPending

\* the response handed to sendResponse
Response(res, dom) ==
  [hasSuccess |-> TRUE, success |-> res.success, error |-> res.error,
   navigationPending |-> res.navigationPending, target_url |-> res.targetUrl,
   new_dom |-> dom, on |-> res.on]

\* the listener receives EXECUTE_ACTION and calls handleExecuteAction
HandleExecuteAction ==
  /\ epc \in {"idle", "done"}
  /\ ~timerPending
  /\ \E a \in ActionDescriptors : action' = a
  /\ epc' = "executeAction"
  /\ targetEl' = FALSE /\ retryAttempt' = 0 /\ nLookups' = 0 /\ nRecaptures' = 0
  /\ sleeps' = <<>> /\ resolution' = "none" /\ actionResult' = Null
  /\ navigated' = FALSE /\ nResponses' = 0 /\ sentResponse' = Null
  /\ postCaptures' = 0 /\ navTimers' = 0 /\ location' = "here"
  /\ movedUnanswered' = FALSE
  /\ UNCHANGED timerPending
  /\ UNCHANGED notExecVars

\* executeAction up to resolveTargetElement
ExecuteAction ==
  /\ epc = "executeAction"
  /\ IF action.isNull \/ action.type = ""
       THEN /\ actionResult' = Failure(<<"Invalid", "action">>) /\ epc' = "respond"
     ELSE IF ~action.typeIsString
       THEN /\ actionResult' = [thrown |-> TRUE] /\ epc' = "catch"
     ELSE IF action.uid
       THEN /\ epc' = "resolve" /\ UNCHANGED actionResult
     ELSE /\ epc' = "dispatch" /\ UNCHANGED actionResult
  /\ UNCHANGED <<action, targetEl, retryAttempt, nLookups, nRecaptures, sleeps, resolution,
                 navigated, nResponses, sentResponse, postCaptures, navTimers,
                 timerPending, location, movedUnanswered>>
  /\ UNCHANGED notExecVars

\* resolveElementWithRetry returns: an element ("found"), null after the last
\* attempt ("null"), or null from its catch block ("caught")
ReturnElement(r) ==
  /\ resolution' = r /\ targetEl' = (r = "found") /\ epc' = "dispatch"

\* one getElementByUIDSafe(uid) inside the try of resolveElementWithRetry:
\* an element, null, or an exception, which is caught by the function's own
\* catch, which returns null
Lookup(hit, miss) ==
  /\ nLookups' = nLookups + 1
  /\ \E o \in {"found", "null", "throws"} :
       CASE o = "found" -> hit
         [] o = "throws" -> ReturnElement("caught") /\ UNCHANGED sleeps
         [] OTHER -> miss

\* the first attempt
ResolveFirst ==
  /\ epc = "resolve"
  /\ Lookup(ReturnElement("found") /\ UNCHANGED sleeps,
            /\ epc' = "retry" /\ UNCHANGED <<resolution, targetEl, sleeps>>)
  /\ UNCHANGED <<action, retryAttempt, nRecaptures, actionResult, navigated,
                 nResponses, sentResponse, postCaptures, navTimers, timerPending,
                 location, movedUnanswered>>
  /\ UNCHANGED notExecVars

\* one round of the loop: captureDOM, resolve, and after a miss sleep
\* retryDelay * (1 + Math.floor(attempt / 2))
RetryRound ==
  /\ epc = "retry" /\ retryContinues(retryAttempt)
  /\ nRecaptures' = nRecaptures + 1
  /\ Lookup(ReturnElement("found") /\ UNCHANGED sleeps,
            /\ epc' = "sleep" /\ sleeps' = Append(sleeps, retryDelay * (1 + (retryAttempt \div 2)))
            /\ UNCHANGED <<resolution, targetEl>>)
  /\ UNCHANGED <<action, retryAttempt, actionResult, navigated, nResponses,
                 sentResponse, postCaptures, navTimers, timerPending, location,
                 movedUnanswered>>
  /\ UNCHANGED notExecVars

\* await sleep(delay) is over: attempt++
Sleep ==
  /\ epc = "sleep"
  /\ retryAttempt' = retryAttempt + 1
  /\ epc' = "retry"
  /\ UNCHANGED <<action, targetEl, nLookups, nRecaptures, sleeps, resolution, actionResult,
                 navigated, nResponses, sentResponse, postCaptures, navTimers,
                 timerPending, location, movedUnanswered>>
  /\ UNCHANGED notExecVars

\* the final attempt after all retries
ResolveFinal ==
  /\ epc = "retry" /\ ~retryContinues(retryAttempt)
  /\ Lookup(ReturnElement("found") /\ UNCHANGED sleeps,
            ReturnElement("null") /\ UNCHANGED sleeps)
  /\ UNCHANGED <<action, retryAttempt, nRecaptures, actionResult, navigated,
                 nResponses, sentResponse, postCaptures, navTimers, timerPending,
                 location, movedUnanswered>>
  /\ UNCHANGED notExecVars

\* the switch on actionType
Dispatch ==
  /\ epc = "dispatch"
  /\ IF actionTypeOf(action) \in NavigateFamily
       THEN LET n == navigateToUrl(action)
            IN  /\ actionResult' = n.result /\ epc' = "respond"
                /\ timerPending' = n.timer
                /\ navTimers' = IF n.timer THEN navTimers + 1 ELSE navTimers
                /\ location' = IF n.now THEN "there" ELSE location
                /\ movedUnanswered' = n.now
                /\ navigated' = n.now
       ELSE /\ \E r \in Handlers(actionTypeOf(action), targetEl) :
                 /\ actionResult' = r
                 /\ epc' = IF r = [thrown |-> TRUE] THEN "catch" ELSE "respond"
            /\ \E nav \in BOOLEAN :
                 navigated' = (nav /\ actionTypeOf(action) \in {"click", "submit", "press"})
            /\ UNCHANGED <<timerPending, navTimers, location, movedUnanswered>>
  /\ UNCHANGED <<action, targetEl, retryAttempt, nLookups, nRecaptures, sleeps, resolution,
                 nResponses, sentResponse, postCaptures>>
  /\ UNCHANGED notExecVars

\* handleExecuteAction after executeAction returned: capture and respond
Respond ==
  /\ epc = "respond"
  /\ LET nav == navigated \/ actionResult.navigationPending
         cap == capturesAfter(actionResult, nav)
     IN  IF action.isNull
           THEN \* action.value throws while the response object is built
                /\ postCaptures' = postCaptures + (IF cap THEN 1 ELSE 0)
                /\ epc' = "catch"
                /\ UNCHANGED <<nResponses, sentResponse>>
           ELSE /\ postCaptures' = postCaptures + (IF cap THEN 1 ELSE 0)
                /\ nResponses' = nResponses + 1
                /\ sentResponse' = Response(actionResult, cap)
                /\ epc' = "done"
  /\ UNCHANGED <<action, targetEl, retryAttempt, nLookups, nRecaptures, sleeps, resolution,
                 actionResult, navigated, navTimers, timerPending, location,
                 movedUnanswered>>
  /\ UNCHANGED notExecVars

\* the catch block of handleExecuteAction
CatchBlock ==
  /\ epc = "catch"
  /\ postCaptures' = postCaptures + 1
  /\ nResponses' = nResponses + 1
  /\ sentResponse' = Response(Failure(<<"Cannot", "read", "properties", "of", "null">>), TRUE)
  /\ epc' = "done"
  /\ UNCHANGED <<action, targetEl, retryAttempt, nLookups, nRecaptures, sleeps, resolution,
                 actionResult, navigated, navTimers, timerPending, location,
                 movedUnanswered>>
  /\ UNCHANGED notExecVars

\* the timer of navigateToUrl fires: window.location.href = targetUrl
NavigationTimer ==
  /\ timerPending
  /\ epc \in {"idle", "done", "sleep"}
  /\ timerPending' = FALSE
  /\ location' = "there"
  /\ movedUnanswered' = (nResponses = 0)
  /\ UNCHANGED <<epc, action, targetEl, retryAttempt, nLookups, nRecaptures, sleeps,
                 resolution, actionResult, navigated, nResponses, sentResponse,
                 postCaptures, navTimers>>
  /\ UNCHANGED notExecVars

ExecutorNext ==
  HandleExecuteAction \/ ExecuteAction \/ ResolveFirst \/ RetryRound \/ Sleep
    \/ ResolveFinal \/ Dispatch \/ Respond \/ CatchBlock \/ NavigationTimer

\* every step of the executor but the arrival of a message
ExecutorStep ==
  ExecuteAction \/ ResolveFirst \/ RetryRound \/ Sleep \/ ResolveFinal
    \/ Dispatch \/ Respond \/ CatchBlock \/ NavigationTimer

ExecutorSpec == Init /\ [][ExecutorNext]_vars

\* timers fire and the steps between two awaits are taken
ExecutorFairSpec == ExecutorSpec /\ WF_vars(ExecutorStep)

\* ------------------------------------------------------------------------
\* waitForSelector (content-script.js)
\* ------------------------------------------------------------------------
\* resolve(value) of the promise: the first call settles it, later calls
\* have no effect
resolve(w, value) ==
  [w EXCEPT !.settled = IF w.settled = "none" THEN value ELSE w.settled,
            !.settledAt = IF w.settled = "none" THEN w.elapsed ELSE w.settledAt,
            !.resolves = w.resolves + 1]

\* waitForSelector(selector, timeout) is called: an empty selector gives
\* false, an element that matches now gives true; otherwise the observer is
\* connected (childList, subtree) and the timer is set
WaitForSelector ==
  /\ ~waiter.called
  /\ \E selector \in {"", "sel"}, matching \in BOOLEAN, timeout \in 1..MaxWait :
       /\ doc' = [doc EXCEPT !.matching = matching]
       /\ LET w == [waiter EXCEPT !.called = TRUE, !.selector = selector,
                                  !.timeout = timeout,
                                  !.atCall = selector # "" /\ matching]
          IN  waiter' =
                IF selector = "" THEN resolve(w, "false")
                ELSE IF matching THEN resolve(w, "true")
                ELSE [w EXCEPT !.observing = TRUE, !.timer = TRUE]
  /\ UNCHANGED notWaitVars

\* a script of the page changes the document: an element is inserted or
\* removed (a record for childList observers), or an attribute of an element
\* changes (no such record); either way a match appears or disappears
Mutate ==
  /\ waiter.called /\ doc.changes < MaxChanges
  /\ \E childList \in BOOLEAN :
       /\ doc' = [matching |-> ~doc.matching, changes |-> doc.changes + 1]
       /\ waiter' =
            [waiter EXCEPT
               !.queued = @ \/ (childList /\ waiter.observing),
               !.appeared = @ \/ (~doc.matching /\ waiter.settled = "none")]
  /\ UNCHANGED notWaitVars

\* the observer's callback runs with the queued records
ObserverCallback ==
  /\ waiter.queued /\ waiter.observing
  /\ waiter' = IF doc.matching
                 THEN resolve([waiter EXCEPT !.queued = FALSE,
                                             !.observing = FALSE], "true")
                 ELSE [waiter EXCEPT !.queued = FALSE]
  /\ UNCHANGED <<doc, notWaitVars>>

\* time passes while the timer runs
Elapse ==
  /\ waiter.timer /\ waiter.elapsed < waiter.timeout
  /\ waiter' = [waiter EXCEPT !.elapsed = @ + 1]
  /\ UNCHANGED <<doc, notWaitVars>>

\* the timer fires: obs.disconnect(), resolve(Boolean(querySelector))
Timeout ==
  /\ waiter.timer /\ waiter.elapsed = waiter.timeout
  /\ waiter' = resolve([waiter EXCEPT !.timer = FALSE, !.queued = FALSE,
                                      !.observing = FALSE],
                       IF doc.matching THEN "true" ELSE "false")
  /\ UNCHANGED <<doc, notWaitVars>>

WaitNext ==
  WaitForSelector \/ Mutate \/ ObserverCallback \/ Elapse \/ Timeout

WaitSpec == Init /\ [][WaitNext]_vars

\* ------------------------------------------------------------------------
\* initEventListenerRegistry (dom-extractor.js)
\* ------------------------------------------------------------------------
\* registry.list.add(this) without the compaction that follows it
addToListUnbounded(list, el) ==
  IF \E i \in 1..Len(list) : list[i] = el THEN list ELSE Append(list, el)

\* registry.list.add(this) of the patched addEventListener: a Set keeps the
\* order of insertion and a member is not added again; when the size is
\* above 2000 the first 500 values of the iteration are deleted
addToList(list, el) ==
  LET added == IF \E i \in 1..Len(list) : list[i] = el
                 THEN list ELSE Append(list, el)
  IN  IF Len(added) > 2000 THEN SubSeq(added, 501, Len(added)) ELSE added

\* target.addEventListener(type, listener, options): the target is the
\* window (nodeType is not 1), an element created just now, the oldest or
\* the newest element of the list
AddEventListener ==
  /\ \E target \in {"window", "new", "oldest", "newest"} :
       /\ target \in {"oldest", "newest"} => registryList # <<>>
       /\ target = "new" =>
             IF registryList = <<>> THEN TRUE
             ELSE registryList[Len(registryList)] < MaxCreated
       /\ registryList' =
            CASE target = "window" -> registryList
              [] target = "new" ->
                   addToList(registryList,
                             IF registryList = <<>> THEN 1
                             ELSE registryList[Len(registryList)] + 1)
              [] target = "oldest" -> addToList(registryList, registryList[1])
              [] target = "newest" ->
                   addToList(registryList, registryList[Len(registryList)])
  /\ UNCHANGED notListenerVars

ListenerSpec == Init /\ [][AddEventListener]_vars

\* ------------------------------------------------------------------------
\* The interaction helpers of the content script on one element:
\* check / uncheck, selectOption, typeIntoElement (content-script.js)
\* ------------------------------------------------------------------------
\* the elements a helper is handed: null, a div, inputs (radio, checkbox,
\* text), a textarea, and selects whose
\* options have the values "NY", "ny", "x" and the texts "NY", " NY", "nyx",
\* "x" (strings are sequences of characters)
Controls ==
  LET Element(tag, type, checked, value) ==
        [tag |-> tag, type |-> type, checked |-> checked, value |-> value,
         options |-> <<>>]
      Options ==
        [value : {<<"N", "Y">>, <<"n", "y">>, <<"x">>},
         text : {<<"N", "Y">>, <<" ", "N", "Y">>, <<"n", "y", "x">>, <<"x">>}]
  IN { Element("none", "", FALSE, <<>>), Element("div", "", FALSE, <<>>),
       Element("input", "radio", FALSE, <<>>),
       Element("input", "radio", TRUE, <<>>),
       Element("input", "checkbox", FALSE, <<>>),
       Element("input", "checkbox", TRUE, <<>>),
       Element("input", "text", FALSE, <<>>),
       Element("input", "text", FALSE, <<"x">>),
       Element("textarea", "", FALSE, <<"x">>) }
     \* a select with its options; a div that opens a popup of candidates
     \* (text, data-value)
     \cup { [Element(tag, "", FALSE, <<>>) EXCEPT !.options = o] :
              tag \in {"select", "div"},
              o \in UNION { [1..n -> Options] : n \in 0..MaxOptions } }

\* variant: the box is clicked whatever its state
checkOrUncheckAlwaysClicks(el, actionType) ==
  IF el.tag # "input" \/ el.type # "checkbox"
    THEN [el |-> el, events |-> <<>>,
          result |-> Failure(<<"Target", "is", "not", "a", "checkbox">>)]
    ELSE [el |-> [el EXCEPT !.checked = ~@], events |-> <<"click()">>,
          result |-> Result(TRUE, NoText, FALSE, "target")]
\* executeAction, case "check" / "uncheck": element.click() toggles the box
checkOrUncheck(el, actionType) ==
  IF el.tag # "input" \/ el.type # "checkbox"
    THEN [el |-> el, events |-> <<>>,
          result |-> Failure(<<"Target", "is", "not", "a", "checkbox">>)]
    ELSE LET shouldCheck == actionType = "check"
         IN  IF el.checked # shouldCheck
               THEN [el |-> [el EXCEPT !.checked = ~@], events |-> <<"click()">>,
                     result |-> Result(TRUE, NoText, FALSE, "target")]
               ELSE [el |-> el, events |-> <<>>,
                     result |-> Result(TRUE, NoText, FALSE, "target")]

\* a check or uncheck action reaches the switch of executeAction
CheckOrUncheck ==
  /\ \E actionType \in {"check", "uncheck"} :
       LET done == checkOrUncheck(control, actionType)
       IN  /\ control' = done.el /\ dispatched' = done.events
           /\ ret' = done.result
           /\ call' = [fn |-> actionType, arg |-> <<>>, before |-> control]
  /\ UNCHANGED notDomVars

\* clickElement(element): the pointer and mouse events in the order of their
\* dispatch; the dispatched click event and the native click() that follows
\* it each run the click listeners and the activation behaviour of the
\* element (a checkbox is toggled). When the function throws before the
\* sequence (thrown), the catch block calls click() alone.
clickElement(el, thrown) ==
  LET events == IF thrown THEN <<"click()">>
                ELSE <<"pointerover", "pointerenter", "pointerdown",
                       "mouseover", "mousedown", "focus()", "pointerup",
                       "mouseup", "click", "click()">>
      clicks == Cardinality({i \in 1..Len(events) :
                               events[i] \in {"click", "click()"}})
  IN  [el |-> IF el.tag = "input" /\ el.type = "checkbox" /\ clicks % 2 = 1
                THEN [el EXCEPT !.checked = ~@] ELSE el,
       events |-> events, result |-> TRUE]

\* executeAction, case "click", on an element that was found:
\* focusElement(element), clickElement(element)
ClickElement ==
  /\ control.tag # "none"
  /\ \E thrown \in BOOLEAN :
       LET done == clickElement(control, thrown)
       IN  /\ control' = done.el /\ dispatched' = done.events
           /\ ret' = Result(done.result, NoText, FALSE, "target")
           /\ call' = [fn |-> "click", arg |-> thrown, before |-> control]
  /\ UNCHANGED notDomVars

\* String.prototype.trim
RECURSIVE trim(_)
trim(str) ==
  IF str = <<>> THEN str
  ELSE IF Head(str) = " " THEN trim(Tail(str))
  ELSE IF str[Len(str)] = " " THEN trim(SubSeq(str, 1, Len(str) - 1))
  ELSE str

\* selectOption(selectEl, valueOrText): found is the index of the option
\* (0: null); selectEl.value = found.value, then input and change
selectOption(selectEl, valueOrText) ==
  LET opts == selectEl.options
      value == trim(valueOrText)
      first(S) == IF S = {} THEN 0 ELSE CHOOSE i \in S : \A j \in S : i <= j
      exact == first({ i \in 1..Len(opts) :
                         opts[i].value = value \/ trim(opts[i].text) = value })
      partial == first({ i \in 1..Len(opts) :
                           includes(toLowerCase(opts[i].text), toLowerCase(value)) })
      found == IF exact # 0 THEN exact
               ELSE IF value # <<>> THEN partial ELSE 0
  IN IF selectEl.tag # "select" \/ found = 0
       THEN [el |-> selectEl, events |-> <<>>,
             result |-> IF selectEl.tag # "select" THEN 0 ELSE found]
       ELSE [el |-> [selectEl EXCEPT !.value = opts[found].value],
             events |-> <<"input", "change">>, result |-> found]

\* a select action hands the element and action.value to selectOption
SelectOption ==
  /\ \E valueOrText \in {<<"N", "Y">>, <<"n", "y">>, <<"N", "Y", " ">>, <<"y">>,
                          <<>>} :
       LET done == selectOption(control, valueOrText)
       IN  /\ control' = done.el /\ dispatched' = done.events
           /\ ret' = [found |-> done.result]
           /\ call' = [fn |-> "selectOption", arg |-> valueOrText,
                       before |-> control]
  /\ UNCHANGED notDomVars

\* findCustomDropdownOption(valueOrText, trigger) over the candidates of the
\* trigger's popup, in document order: the index of the candidate returned
\* (0 = null)
findCustomDropdownOption(valueOrText, trigger) ==
  LET value == trim(valueOrText)
      candidates == trigger.options
      hit(el) ==
        LET t == trim(el.text)
        IN  /\ t # <<>>
            /\ \/ t = value
               \/ toLowerCase(t) = toLowerCase(value)
               \/ includes(toLowerCase(t), toLowerCase(value))
               \/ el.value = value
               \/ toLowerCase(el.value) = toLowerCase(value)
  IN  IF \E i \in 1..Len(candidates) : hit(candidates[i])
        THEN CHOOSE i \in 1..Len(candidates) :
               hit(candidates[i]) /\ \A j \in 1..(i - 1) : ~hit(candidates[j])
        ELSE 0

\* a select action on a trigger that is no select element: the popup is
\* opened and searched
FindCustomDropdownOption ==
  /\ control.tag = "div"
  /\ \E valueOrText \in {<<"N", "Y">>, <<"n", "y">>, <<"N", "Y", " ">>, <<"y">>,
                          <<>>} :
       /\ ret' = [found |-> findCustomDropdownOption(valueOrText, control)]
       /\ call' = [fn |-> "findCustomDropdownOption", arg |-> valueOrText,
                   before |-> control]
  /\ dispatched' = <<"mouseover", "mousemove", "click">>
  /\ UNCHANGED <<control, notDomVars>>

\* variant: the value is set and only the input event is dispatched
setValueWithoutChange(el, value) ==
  IF el.tag = "none" THEN [el |-> el, events |-> <<>>, result |-> FALSE]
  ELSE [el |-> [el EXCEPT !.value = value], events |-> <<"input">>,
        result |-> TRUE]
\* setValueReactSafe(el, value): the native value setter, then an input and
\* a change event; a select takes a value only if one of its options has it
setValueReactSafe(el, value) ==
  IF el.tag = "none" THEN [el |-> el, events |-> <<>>, result |-> FALSE]
  ELSE [el |-> [el EXCEPT !.value =
                  IF el.tag = "select"
                       /\ \A i \in 1..Len(el.options) : el.options[i].value # value
                    THEN <<>> ELSE value],
        events |-> <<"input", "change">>, result |-> TRUE]

\* a type action: focusElement, then typeIntoElement(element, value) on an
\* element with no autocomplete, no editor and no other element focused
TypeIntoElement ==
  /\ control.tag # "none"
  /\ \E text \in {<<"N", "Y">>, <<"n", "y">>, <<"N", "Y", " ">>, <<"y">>, <<>>} :
       LET done == IF control.tag \in {"input", "textarea", "select"}
                     THEN setValueReactSafe(control, text)
                     ELSE [el |-> control, events |-> <<>>, result |-> FALSE]
       IN  /\ control' = done.el /\ dispatched' = done.events
           /\ ret' = [ok |-> done.result]
           /\ call' = [fn |-> "type", arg |-> text, before |-> control]
  /\ UNCHANGED notDomVars

\* The visibility filter of the extractor. The candidate is given as the chain
\* of boxes from the candidate down through an only child, an only grandchild
\* and so on: "sized" is a box wider and higher than one pixel, "pixel" a box
\* of one pixel, "zero" a box of width or height zero, "none" a box styled
\* display:none (nothing is rendered below it). The candidate's ancestors are
\* shown and it lies within its scroll container.
isElementVisible(element) ==
  IF element[1] = "none" THEN FALSE
  ELSE IF element[1] = "zero"
         THEN \E child \in {2} \cap DOMAIN element : element[child] = "sized"
         ELSE TRUE

IsActionableElement ==
  /\ \E element \in UNION {[1..n -> {"sized", "pixel", "zero", "none"}] :
                              n \in 1..MaxDepth} :
       /\ \A i \in 1..(Len(element) - 1) : element[i] # "none"
       /\ ret' = [visible |-> isElementVisible(element)]
       /\ call' = [fn |-> "visible", arg |-> element, before |-> control]
  /\ UNCHANGED <<control, dispatched, notDomVars>>

ExtractorSpec == Init /\ [][IsActionableElement]_vars

\* The textual fields of an element record. A string is given by its length
\* and by the number of white-space characters at its two ends (pad); the
\* white space inside it is single.
\* getElementText: the first non-empty of value and textContent (placeholder,
\* alt and title are further sources of the same kind), trimmed, and cut to
\* 97 characters and "..." when longer than 100
getElementText(element) ==
  LET text == IF element.value.len > 0 THEN element.value
              ELSE element.textContent
      clean == text.len - text.pad
  IN  IF clean > 100 THEN 97 + 3 ELSE clean

\* getAccessibleName: aria-label trimmed, else the texts of the element's
\* labels joined by a blank
getAccessibleName(element) ==
  IF element.ariaLabel.len > 0
    THEN element.ariaLabel.len - element.ariaLabel.pad
    ELSE IF element.labelCount > 0
           THEN element.labelCount * element.labelText + (element.labelCount - 1)
           ELSE 0

\* getAssociatedLabels: the distinct label texts, the first three of them
getAssociatedLabels(element) ==
  [i \in 1..(IF element.labelCount > 3 THEN 3 ELSE element.labelCount) |->
     element.labelText]

\* getRelevantAttributes: an attribute is kept when it is present, not empty
\* and shorter than 200 characters
getRelevantAttributes(element) ==
  LET attr == [id |-> element.id, value |-> element.value.len,
               ariaLabel |-> element.ariaLabel.len]
  IN  [a \in {b \in DOMAIN attr : attr[b] > 0 /\ attr[b] < 200} |-> attr[a]]

\* serializeElement on one element below <body>, outside any shadow root
SerializeElement ==
  /\ call.fn = "none"
  /\ \E tag \in {"input", "div"},
        value, textContent, ariaLabel \in
          {[len |-> l, pad |-> d] :
              l \in {0, 3, 100, 101, 199, 200, 450}, d \in {0, 2}},
        id \in {0, 3, 450}, labelCount \in 0..MaxLabels, labelText \in {3, 450} :
       /\ value.pad <= value.len /\ textContent.pad <= textContent.len
       /\ ariaLabel.pad <= ariaLabel.len
       /\ tag = "div" => value.len = 0
       /\ textContent.len > 0 => ariaLabel.pad = 0 /\ value.pad = 0
       /\ labelCount = 0 => labelText = 3
       /\ LET element == [tag |-> tag, value |-> value,
                          textContent |-> textContent, ariaLabel |-> ariaLabel,
                          id |-> id, labelCount |-> labelCount,
                          labelText |-> labelText]
              \* getElementState: state.value of an input is element.value
              stateValue == IF tag = "input" THEN value.len ELSE 0
              \* generateSelector: `#${element.id}`, else at most five
              \* segments tag:nth-of-type(n)
              selector == IF id > 0 THEN 1 + id ELSE Len(tag)
              \* generateShadowPath: body and the element, `tag#id`, joined
              \* by a blank; out.slice(0, 400)
              path == 4 + 1 + Len(tag) + (IF id > 0 THEN 1 + id ELSE 0)
              shadowPath == IF path > 400 THEN 400 ELSE path
          IN  /\ ret' = [text |-> getElementText(element),
                         attributes |-> getRelevantAttributes(element),
                         accessibleName |-> getAccessibleName(element),
                         labels |-> getAssociatedLabels(element),
                         stateValue |-> stateValue,
                         selector |-> selector, shadowPath |-> shadowPath]
              /\ call' = [fn |-> "serializeElement", arg |-> element,
                          before |-> control]
  /\ UNCHANGED <<control, dispatched, notDomVars>>

SerializeSpec == Init /\ [][SerializeElement]_vars

DomInit ==
  /\ PanelInit /\ TransportIdle /\ UidIdle /\ ExecutorIdle /\ WaitIdle
  /\ ListenerIdle /\ RunIdle
  /\ control \in Controls
  /\ dispatched = <<>> /\ ret = Null /\ call = [fn |-> "none"]

DomNext ==
  CheckOrUncheck \/ SelectOption \/ TypeIntoElement \/ FindCustomDropdownOption

DomSpec == DomInit /\ [][DomNext]_vars

ClickSpec == DomInit /\ [][ClickElement]_vars

\* ------------------------------------------------------------------------
\* Properties
\* ------------------------------------------------------------------------
\* the session has ended: its outcome is fixed
Ended == outcome # Null

\* C1: in one session at most maxIterations actions are dispatched to the
\* executor and at most maxIterations planning rounds are made, whatever the
\* planner and the executor answer.
C1_BoundedRounds ==
  /\ nDispatched <= maxIterations
  /\ nPlanRounds <= maxIterations

\* no stop was requested in this session
NoStop == stopRound = -1

\* every action dispatched so far in this session returned success
NoFailedAction ==
  /\ nRetries = 0
  /\ \/ executionResult = Null
     \/ IsReply(executionResult) /\ executionResult.hasSuccess /\ executionResult.success

LimitOutcome == Outcome("error", <<"Reached", "iteration", "limit">>, "limit")

IterationExits == {"recapture", "planner", "plan", "catch", "send", "malformed",
                   "execution"}

StoppedOutcome == Outcome("stopped", <<"Execution", "stopped", "by", "user">>, "stop")

\* the result of the last dispatched action has been taken in by the loop
LastResultRecorded ==
  nDispatched > 0 =>
    (previousResultForBackend # Null /\ previousResultForBackend.seq = nDispatched)

\* C3 (as claimed): when the stop flag is set while an iteration is in
\* progress, the session ends with outcome Stopped, whichever iteration it was
\* and whatever the planner or the executor returned in it.
C3_StopMidIterationEndsStopped ==
  (Ended /\ stopMid) => outcome.status = "stopped"

\* C3 (amended): when the stop flag is set while an iteration is in progress,
\* no later iteration is started; the session ends Stopped at the next test of
\* the flag, after the result of the action in flight has been taken in,
\* unless the iteration in progress itself ends the session (completion or a
\* failure) or is the last one the bound allows (iteration-limit failure).
C3_StopAfterIteration ==
  /\ [](stopMid =>
         /\ round = stopRound
         /\ Ended => \/ outcome = StoppedOutcome /\ LastResultRecorded
                     \/ outcome.via \in IterationExits
                     \/ outcome = LimitOutcome /\ iteration = maxIterations)
  /\ [](outcome = StoppedOutcome => stopRound # -1)
  /\ [][(pc = "loopTop" /\ stopRequested /\ loopContinues(iteration))
          => outcome' = StoppedOutcome]_vars

C3_Witness ==
  /\ stopMid /\ outcome = StoppedOutcome
  /\ dispAfterStop = 1 /\ nDispatched >= 2

\* C4: once the stop flag has been set in a running session, at most one
\* further action is dispatched, and only by the iteration that was in progress
\* when the flag was set; no later iteration starts, so none issues a planner
\* request; the flag stays set until the session has ended.
C4_StopBoundsFurtherWork ==
  /\ [](stopRequested =>
         /\ round = stopRound
         /\ dispAfterStop <= 1
         /\ dispAfterStop = 1 => stopMid)
  /\ []((stopRound # -1 /\ ~Ended) => stopRequested)
  /\ [][(stopRequested /\ ~stopRequested') => Ended']_vars
  /\ [][(stopRequested /\ pc = "loopTop") => pc' \notin {"recapture", "plan"}]_vars

C4_Witness ==
  /\ stopRequested /\ Ended /\ pc = "finalize"
  /\ dispAfterStop = 1 /\ outcome = StoppedOutcome

\* executionResult is a well-formed result with success = false
FailedResult(res) == IsReply(res) /\ res.hasSuccess /\ ~res.success

\* the loop is at its top again after a failed action (the `continue` paths)
Replanning ==
  /\ pc = "loopTop"
  /\ previousResultForBackend # Null
  /\ ~previousResultForBackend.success

\* C5 (as claimed): a failed result with a transient message never ends the
\* session.
C5_TransientNeverEnds ==
  (Ended /\ outcome.via = "execution") =>
    ~(FailedResult(executionResult) /\ isTransient(executionResult))

\* C5 (amended): on a failed result with a transient message the loop does not
\* count the iteration and takes the snapshot embedded in the result as the
\* current one; without an embedded snapshot it captures one, and ends Failed
\* with the message of the result when that capture fails; with the new
\* snapshot it returns to the top of the loop, where it issues a new planner
\* request with that snapshot unless a stop was requested.
C5_TransientFailureReplans ==
  /\ [][(pc = "executed" /\ pc' # pc /\ FailedResult(executionResult)
            /\ isTransient(executionResult)) =>
          /\ outcome' = Null /\ iteration' = iteration
          /\ IF executionResult.dom >= 0
               THEN /\ pc' = "loopTop"
                    /\ currentDom' = Snap("embedded", executionResult.dom, nDispatched)
               ELSE /\ pc' = "transientCapture"
                    /\ currentDom' = currentDom]_vars
  /\ [][(pc = "transientCapture" /\ pc' # pc) =>
          \/ /\ pc' = "loopTop" /\ outcome' = Null /\ iteration' = iteration
             /\ currentDom' # Null /\ currentDom' # currentDom
             /\ currentDom'.src = "capture" /\ currentDom'.epoch = nDispatched
          \/ /\ pc' = "finalize" /\ currentDom' = currentDom
             /\ outcome' = Outcome("error", FailureMessage(executionResult), "execution")]_vars
  /\ [](pc = "transientCapture" =>
          (FailedResult(executionResult) /\ isTransient(executionResult)
             /\ executionResult.dom < 0))
  /\ [](Replanning =>
          (loopContinues(iteration) /\ currentDom # Null
             /\ currentDom.epoch = nDispatched))
  /\ [][(Replanning /\ pc' # pc) =>
          IF stopRequested
            THEN outcome' = StoppedOutcome
            ELSE pc' = "plan" /\ reqDom' = currentDom /\ reqState' = "pending"]_vars

C5_Witness ==
  /\ pc = "plan" /\ reqState = "pending"
  /\ previousResultForBackend # Null /\ ~previousResultForBackend.success
  /\ reqDom.src = "capture" /\ reqDom.epoch = nDispatched /\ nDispatched >= 1

\* C6: a failed result whose message is not transient ends the loop at once
\* with outcome Failed carrying the error (or else the message) of the result;
\* once the outcome is set no planner request, capture or action is in flight.
C6_FatalFailureEndsLoop ==
  /\ [][(pc = "executed" /\ pc' # pc /\ FailedResult(executionResult)
            /\ ~isTransient(executionResult)) =>
          /\ pc' = "finalize"
          /\ outcome' = Outcome("error",
                                OrText(executionResult.error, executionResult.message),
                                "execution")
          /\ outcome'.message # NoText
          /\ UNCHANGED <<nDispatched, nPlanRounds, currentDom, iteration>>]_vars
  /\ []((Ended /\ outcome.via = "execution") =>
          /\ pc \in {"finalize", "idle"}
          /\ FailedResult(executionResult)
          /\ outcome.message = FailureMessage(executionResult))
  /\ [][(Ended /\ Ended') => UNCHANGED <<nDispatched, nPlanRounds>>]_vars

C6_Witness ==
  /\ pc = "finalize" /\ outcome.via = "execution"
  /\ FailedResult(executionResult) /\ ~isTransient(executionResult)
  /\ outcome.message = <<"Target", "is", "not", "a", "checkbox">>

\* HTTP statuses of the 5xx class the backend answers with

\* a planner-call failure of the kinds named transient: network, timeout, a
\* 5xx status, or the planner's recoverable signal
NamedTransient(m) ==
  \/ plannerTransient(m)
  \/ /\ Len(m) = 3 /\ m[1] = "Backend" /\ m[2] = "error:"
     /\ m[3] \in {"500", "502", "503", "504"}

\* C7: when requestNextAction is over, the planner was called at most twice;
\* if the first call failed transiently (network, timeout, 5xx status, the
\* planner's recoverable signal) it was called exactly once more, and if it
\* failed otherwise it was not called again.
C7_RetryOnceWhenTransient ==
  pc = "planned" =>
    /\ reqCalls <= 2
    /\ (reqErr # NoText /\ NamedTransient(reqErr)) => reqCalls = 2
    /\ (reqErr # NoText /\ ~NamedTransient(reqErr)) =>
         (reqCalls = 1 /\ reqState = "thrown")

\* a well-formed result that reports navigation
NavResult(res) == IsReply(res) /\ res.hasSuccess /\ res.navigated

\* C8 (as claimed): after any action result that reports navigation the loop
\* goes to the settle wait and leaves the current snapshot alone.
C8_NavigationAlwaysSettles ==
  [][(pc = "executed" /\ pc' # pc /\ NavResult(executionResult))
      => (pc' = "navSettle" /\ currentDom' = currentDom)]_vars

\* C8 (amended): after a successful action result that reports navigation the
\* loop does not use the snapshot embedded in the result and takes no
\* immediate capture: it waits NavSettleDelay, then makes at most
\* maxCaptureAttempts capture attempts, with waits navWait(2) < navWait(3)
\* before the second and the third; it goes on to a further attempt only
\* after a capture that failed or holds no element, and the first capture
\* with at least one element becomes the current snapshot; after the last
\* attempt without such a capture the current snapshot is null.
C8_PostNavigationCapture ==
  /\ [][(pc = "executed" /\ pc' # pc /\ NavResult(executionResult)
            /\ executionResult.success)
          => (pc' = "navSettle" /\ currentDom' = currentDom)]_vars
  /\ [][(pc = "navSettle" /\ pc' # pc)
          => (pc' = "navCapture" /\ lastDelay' = NavSettleDelay
              /\ captureAttempt' = 1 /\ currentDom' = currentDom)]_vars
  /\ [](pc = "navCapture" =>
          /\ captureAttempt \in 1..maxCaptureAttempts
          /\ lastDelay > 0
          /\ captureAttempt > 1 =>
               /\ lastDelay = navWait(captureAttempt)
               /\ lastDelay > navWait(captureAttempt - 1))
  /\ [](pc = "navBackoff" =>
          /\ captureAttempt \in 2..maxCaptureAttempts
          /\ ~(result.kind = "ok" /\ result.elems >= 1))
  /\ [][(pc = "navCapture" /\ pc' # pc) =>
          \/ /\ pc' = "loopTop" /\ iteration' = iteration + 1
             /\ currentDom' # Null /\ currentDom'.src = "capture"
             /\ currentDom'.elems >= 1 /\ currentDom'.epoch = nDispatched
          \/ /\ pc' = "navBackoff" /\ captureAttempt < maxCaptureAttempts
             /\ currentDom' = currentDom /\ iteration' = iteration
          \/ /\ pc' = "loopTop" /\ iteration' = iteration + 1
             /\ captureAttempt = maxCaptureAttempts /\ currentDom' = Null]_vars

C8_Witness ==
  /\ pc = "navCapture" /\ captureAttempt = maxCaptureAttempts
  /\ lastDelay = navWait(maxCaptureAttempts) /\ currentDom # Null

\* C9: the outcome is success exactly when the planner returned a plan with
\* complete = true; on no plan, or on a non-complete plan without a next
\* action, the session ends Failed and the iteration dispatches no action; a
\* complete plan ends the session without its next action being dispatched.
C9_SuccessIffComplete ==
  /\ [](Ended => (outcome.status = "success" <=> sawComplete))
  /\ [][(pc = "planned" /\ pc' # pc /\ reqState = "returned") =>
          CASE actionPlan = "none" ->
                 /\ outcome' = Outcome("error",
                         <<"Backend", "returned", "an", "empty", "action", "plan">>,
                         "plan")
                 /\ pc' = "finalize" /\ nDispatched' = nDispatched
            [] actionPlan = "actionless" ->
                 /\ outcome' = Outcome("error",
                         <<"Backend", "did", "not", "provide", "a", "next", "action">>,
                         "plan")
                 /\ pc' = "finalize" /\ nDispatched' = nDispatched
            [] actionPlan \in {"complete", "completeWithAction"} ->
                 /\ outcome' = Outcome("success", <<"Goal", "achieved">>, "plan")
                 /\ pc' = "finalize" /\ nDispatched' = nDispatched
            [] OTHER -> TRUE]_vars
  /\ [][(Ended /\ Ended') => UNCHANGED <<nDispatched, outcome>>]_vars

C9_Witness ==
  /\ pc = "finalize" /\ outcome.status = "success"
  /\ actionPlan = "completeWithAction" /\ nDispatched >= 1

\* C10: for one planned action, executeActionOnPage delivers the descriptor
\* to the executor of each frame at most once, and at most one frame
\* performs it.
C10_PerformedOncePerAction ==
  /\ \A f \in FrameIds : sent[f] <= 1
  /\ Cardinality(performedBy) <= 1

\* an EXECUTE_ACTION request of executeActionOnPage is awaiting its response
AwaitingPerform == pc \in {"execTop", "execFrames"}

\* the Execute button is enabled (executeBtn.disabled = false)
ExecuteEnabled == ~isExecuting

C12_UnreachableReinjectsAndResends ==
  /\ attempts <= 2 /\ injections <= 1
  /\ lastSend # Null =>
       /\ lastSend.attempts <= 2
       /\ lastSend.firstError \in Unreachable =>
            (lastSend.injections = 1 /\ lastSend.attempts = 2)
       /\ (lastSend.attempts = 2 /\ lastSend.err # NoText) => lastSend.thrown

\* ------------------------------------------------------------------------
\* C13: in every snapshot returned by a capture the uids of the element
\* records are pairwise distinct, whatever elements the page holds.
\* ------------------------------------------------------------------------
C13_SnapshotUidsDistinct ==
  snapshot # Null =>
    \A i, j \in 1..Len(snapshot.elements) :
      i # j => snapshot.elements[i].uid # snapshot.elements[j].uid

\* ------------------------------------------------------------------------
\* C14: resolving the same uid twice with no structural change of the page
\* in between returns the same element both times, also when a capture or
\* other resolutions happen between the two calls.
\* ------------------------------------------------------------------------
C14_SameUidSameElement ==
  \A u \in DOMAIN lookups : Cardinality(lookups[u]) <= 1

\* ------------------------------------------------------------------------
\* C15: resolveElementWithRetry always terminates: for a uid that never
\* resolves it makes the initial attempt, at most maxRetries rounds of
\* recapture-then-resolve separated by non-decreasing delays and one final
\* attempt, then returns null; it never throws and never loops forever.
\* ------------------------------------------------------------------------
C15_ResolveTerminates ==
  /\ [](/\ nLookups <= maxRetries + 2
        /\ nRecaptures <= maxRetries
        /\ Len(sleeps) <= maxRetries
        /\ \A i, j \in 1..Len(sleeps) : i <= j => sleeps[i] <= sleeps[j])
  /\ [](resolution = "null" =>
          /\ ~targetEl
          /\ nLookups = maxRetries + 2
          /\ nRecaptures = maxRetries
          /\ Len(sleeps) = maxRetries)
  /\ [](resolution = "caught" => ~targetEl)
  /\ [][(epc \in {"resolve", "retry", "sleep"}
           /\ epc' \notin {"resolve", "retry", "sleep"}) =>
          (epc' = "dispatch" /\ resolution' \in {"found", "null", "caught"})]_vars
  /\ (epc \in {"resolve", "retry", "sleep"} ~> epc = "dispatch")

C15_Witness ==
  /\ epc = "dispatch" /\ resolution = "null"
  /\ nLookups = maxRetries + 2 /\ sleeps[maxRetries] = 500

\* ------------------------------------------------------------------------
\* C16: for every EXECUTE_ACTION message, whatever the descriptor,
\* handleExecuteAction sends exactly one response, with a boolean success
\* field; a target that cannot be found yields success = false with an
\* error text, never an uncaught exception.
\* ------------------------------------------------------------------------
C16_OneStructuredResponse ==
  LET \* an action type that acts on the element named by target_uid, and
      \* resolveElementWithRetry returned null
      TargetNotFound ==
        /\ ~action.isNull /\ action.typeIsString /\ action.uid
        /\ actionTypeOf(action) \in {"click", "type", "hover", "press",
                                      "select", "check", "uncheck", "submit"}
        /\ resolution \in {"null", "caught"}
  IN
  /\ nResponses <= 1
  /\ epc = "done" =>
       /\ nResponses = 1
       /\ sentResponse.hasSuccess /\ sentResponse.success \in BOOLEAN
       /\ TargetNotFound =>
            (~sentResponse.success /\ sentResponse.error # NoText)

\* ------------------------------------------------------------------------
\* C17: executeAction returns the "Unsupported action type" failure exactly
\* for action types outside the wire-level enumeration; every type of the
\* enumeration is dispatched to a handler.
\* ------------------------------------------------------------------------
C17_UnsupportedOnlyOutsideEnumeration ==
  LET Dispatched ==
        /\ epc \in {"respond", "done"}
        /\ ~action.isNull /\ action.typeIsString /\ action.type # ""
        /\ actionResult # Null /\ actionResult # [thrown |-> TRUE]
  IN
  Dispatched =>
    (actionResult.error = <<"Unsupported", "action", "type">> <=>
       actionTypeOf(action) \notin Enumeration)

\* ------------------------------------------------------------------------
\* C18: a navigate-family action with a usable URL returns success with the
\* navigation-pending flag and the target URL without waiting for the
\* navigation: the response is sent before the page location is changed,
\* and the location change is scheduled exactly once.
\* ------------------------------------------------------------------------
C18_NavigateAnswersBeforeMoving ==
  /\ [](~movedUnanswered /\ navTimers <= 1)
  /\ []((/\ ~action.isNull /\ action.typeIsString
          /\ actionTypeOf(action) \in NavigateFamily /\ action.value = "url"
          /\ epc \in {"respond", "done"}) =>
          /\ actionResult.success /\ actionResult.navigationPending
          /\ actionResult.targetUrl /\ navTimers = 1)
  /\ []((/\ ~action.isNull /\ action.typeIsString
          /\ actionTypeOf(action) \in NavigateFamily /\ action.value = "url"
          /\ epc = "done") =>
          /\ sentResponse.success /\ sentResponse.navigationPending
          /\ sentResponse.target_url)
  /\ [][(/\ epc = "respond" /\ epc' = "done"
          /\ ~action.isNull /\ action.typeIsString
          /\ actionTypeOf(action) \in NavigateFamily /\ action.value = "url") =>
          (location = "here" /\ timerPending)]_vars
  /\ [][(location = "here" /\ location' = "there") =>
          (nResponses = 1 /\ timerPending /\ ~timerPending')]_vars

C18_Witness ==
  /\ epc = "done" /\ ~action.isNull /\ action.typeIsString /\ action.uid
  /\ actionTypeOf(action) \in NavigateFamily /\ action.value = "url"
  /\ location = "there" /\ nResponses = 1 /\ navTimers = 1

C20_MergeInFrameOrder ==
  LET \* the elements of the frames that answered successfully, frame by frame
      RECURSIVE ElementsOfAnswers(_)
      ElementsOfAnswers(as) ==
        IF as = <<>> THEN <<>>
        ELSE LET a == Head(as)
                 own == IF frameAnswered(a.out) /\ a.out.res.isArray
                          THEN [i \in 1..Len(a.out.res.elements) |->
                                  [uid |-> a.out.res.elements[i],
                                   frameId |-> a.frameId]]
                          ELSE <<>>
             IN  own \o ElementsOfAnswers(Tail(as))
      IsMerged == returned.err = NoText /\ "merged" \in DOMAIN returned.res
  IN
  (cpc = "done" /\ Len(frameList) > 1) =>
    /\ Len(answered) = Len(frameList)
    /\ \A i \in 1..Len(frameList) : answered[i].frameId = frameList[i]
    /\ IF \E i \in 1..Len(answered) : frameAnswered(answered[i].out)
         THEN /\ scope = "sweep" /\ IsMerged
              /\ returned.res.success
              /\ returned.res.elements = ElementsOfAnswers(answered)
              /\ returned.res.elementCount = Len(returned.res.elements)
         ELSE /\ scope = "fallback" /\ ~IsMerged
              /\ lastSend.attempts \in 0..2

C20_Witness ==
  /\ cpc = "done" /\ Len(frameList) = 3 /\ frameList[1] # 0
  /\ Len(results) = 2
  /\ returned.err = NoText /\ "merged" \in DOMAIN returned.res
  /\ returned.res.elementCount = 3
  /\ returned.res.elements[1].frameId # returned.res.elements[3].frameId

\* ------------------------------------------------------------------------
\* C21: in a multi-frame capture, a frame that never answers or answers with
\* an error does not prevent the other frames from being processed: while
\* the steps of the capture are taken whenever they can be, a sweep that
\* sends to a frame always completes, and a frame's error is not raised.
\* ------------------------------------------------------------------------
C21_FrameFailureDoesNotBlock ==
  (cpc = "attempt" /\ scope = "sweep") ~> cpc = "done"

\* ------------------------------------------------------------------------
\* C22: a check (uncheck) action on a checkbox issues exactly one native
\* click when the box is unchecked (checked) and none otherwise, so that the
\* box ends in the requested state and the same action repeated changes
\* nothing; a target that is not a checkbox input yields a failure result
\* and no click.
\* ------------------------------------------------------------------------
C22_CheckIsIdempotent ==
  /\ [](call.fn \in {"check", "uncheck"} =>
          IF call.before.tag = "input" /\ call.before.type = "checkbox"
            THEN /\ ret.success
                 /\ control.checked = (call.fn = "check")
                 /\ dispatched = IF call.before.checked # (call.fn = "check")
                                   THEN <<"click()">> ELSE <<>>
            ELSE /\ ~ret.success /\ ret.error # NoText
                 /\ dispatched = <<>> /\ control = call.before)
  /\ [][(/\ call.fn \in {"check", "uncheck"} /\ call'.fn = call.fn
         /\ control.tag = "input" /\ control.type = "checkbox") =>
          (control' = control /\ dispatched' = <<>> /\ ret'.success)]_vars

C22_Witness ==
  /\ call.fn = "uncheck" /\ call.before.type = "checkbox" /\ call.before.checked
  /\ ~control.checked /\ dispatched = <<"click()">>

\* ------------------------------------------------------------------------
\* C23: for a native select, selectOption chooses the first option whose
\* value equals the requested string exactly; only if no value matches, the
\* first option whose trimmed text equals it; only if no text matches, the
\* first option whose text contains it case-insensitively; and returns null,
\* changing nothing, when no option matches, whatever the order of options
\* (checked for requested strings that are not empty and need no trimming).
\* ------------------------------------------------------------------------
C23_SelectPriority ==
  LET opts == call.before.options
      first(S) == IF S = {} THEN 0 ELSE CHOOSE i \in S : \A j \in S : i <= j
      byValue == first({ i \in 1..Len(opts) : opts[i].value = call.arg })
      byText == first({ i \in 1..Len(opts) : trim(opts[i].text) = call.arg })
      byPart == first({ i \in 1..Len(opts) :
                          includes(toLowerCase(opts[i].text),
                                   toLowerCase(call.arg)) })
      chosen == IF byValue # 0 THEN byValue
                ELSE IF byText # 0 THEN byText ELSE byPart
  IN (/\ call.fn = "selectOption" /\ call.before.tag = "select"
      /\ call.arg # <<>> /\ trim(call.arg) = call.arg) =>
       /\ ret.found = chosen
       /\ ret.found # 0 => control.value = opts[ret.found].value
       /\ ret.found = 0 => (control = call.before /\ dispatched = <<>>)

\* ------------------------------------------------------------------------
\* C24: a type action on a plain text input or a textarea sets the element's
\* value to exactly the given string and dispatches exactly one input
\* notification followed by exactly one change notification, for every
\* input string.
\* ------------------------------------------------------------------------
C24_TypeSetsValueAndNotifiesOnce ==
  (/\ call.fn = "type"
   /\ \/ call.before.tag = "input" /\ call.before.type = "text"
      \/ call.before.tag = "textarea") =>
    /\ ret.ok
    /\ control.value = call.arg
    /\ dispatched = <<"input", "change">>
    /\ control = [call.before EXCEPT !.value = call.arg]

C24_Witness ==
  /\ call.fn = "type" /\ call.before.tag = "input" /\ call.before.type = "text"
  /\ call.before.value = <<"x">> /\ call.arg = <<"N", "Y", " ">>
  /\ control.value = <<"N", "Y", " ">> /\ dispatched = <<"input", "change">>

\* C25: a candidate whose own box is of size zero passes the visibility filter
\* of the snapshot exactly when some box below it, at any depth, is visibly
\* sized.
C25_ZeroSizeNeedsSizedDescendant ==
  (call.fn = "visible" /\ call.arg[1] = "zero")
    => (ret.visible <=> \E i \in 2..Len(call.arg) : call.arg[i] = "sized")

\* C26: whenever executeAction has interacted with its target element (click,
\* type, select, press, hover, check, uncheck), the element was attached and
\* visible at the moment of the interaction.
C26_TargetLiveAtInteraction ==
  (/\ epc = "respond"
   /\ actionTypeOf(action) \in {"click", "type", "select", "press", "hover",
                                "check", "uncheck"}
   /\ actionResult.on = "target")
    => actionResult.live

\* C27: getElementByUID returns null for a uid that is not registered;
\* otherwise it returns the first of the candidates of the CSS selector, the
\* XPath, the attribute fingerprint and the text match, in this order, that is
\* attached and not hidden, and null when none of them is; so no result is a
\* detached or hidden element.
C27_FirstLiveCandidateWins ==
  [][\A uid \in DOMAIN lookups' :
       \A el \in lookups'[uid]
                   \ (IF uid \in DOMAIN lookups THEN lookups[uid] ELSE {}) :
         LET live(k) == (\E i \in 1..Len(page) : page[i] = k) /\ k \notin hidden
             entry == uidRegistry[uid]
             candidates ==
               <<querySelector(elements, page, entry.selector),
                 querySelector(elements, page, entry.xpath),
                 findByAttributes(elements, page, entry.attributes),
                 IF entry.text # ""
                   THEN findByText(elements, page, entry.text) ELSE 0>>
         IN  /\ el # 0 => live(el)
             /\ uid \notin DOMAIN uidRegistry => el = 0
             /\ uid \in DOMAIN uidRegistry =>
                  IF \E i \in 1..4 : live(candidates[i])
                    THEN \E i \in 1..4 :
                           /\ el = candidates[i] /\ live(el)
                           /\ \A j \in 1..(i - 1) : ~live(candidates[j])
                    ELSE el = 0]_vars

\* a lookup gave an element although the candidate of the CSS selector is a
\* hidden element of the page
C27_Witness ==
  \E uid \in DOMAIN lookups \cap DOMAIN uidRegistry :
    \E el \in lookups[uid] :
      /\ el # 0
      /\ querySelector(elements, page, uidRegistry[uid].selector) \in hidden
      /\ el # querySelector(elements, page, uidRegistry[uid].selector)

\* C28: for the attributes recorded for a uid that was looked up,
\* findByAttributes returns an element matched by a recorded id, name or
\* data-testid when one of them matches an element of the page; otherwise the
\* element matched by another recorded attribute that matches exactly one
\* element; and null only when there is neither.
C28_AttributeFingerprint ==
  \A uid \in DOMAIN uidRegistry \cap DOMAIN lookups :
    LET attrs == uidRegistry[uid].attributes
        found == findByAttributes(elements, page, attrs)
        onPage == {page[i] : i \in 1..Len(page)}
        byStable == {k \in onPage :
                       \/ attrs.id # "" /\ elements[k].id = attrs.id
                       \/ attrs.name # "" /\ elements[k].name = attrs.name
                       \/ attrs.testid # "" /\ elements[k].testid = attrs.testid}
        byOther == {k \in onPage : attrs.test # "" /\ elements[k].test = attrs.test}
    IN  IF byStable # {} THEN found \in byStable
        ELSE IF Cardinality(byOther) = 1 THEN found \in byOther
        ELSE found = 0

\* C29: a sweep of cleanupRegistry removes exactly the entries whose access
\* count is zero and whose age exceeds maxAge and leaves every other entry as
\* it is; no step removes an entry that was resolved at least once or that is
\* not older than maxAge.
C29_SweepRemovesOnlyStaleUnused ==
  /\ [](\A uid \in DOMAIN uidRegistry :
          LET swept == cleanupRegistry(uidRegistry, clock)
              stale == /\ uidRegistry[uid].accessCount = 0
                       /\ clock - uidRegistry[uid].timestamp > maxAge
          IN  /\ uid \notin DOMAIN swept <=> stale
              /\ uid \in DOMAIN swept => swept[uid] = uidRegistry[uid])
  /\ [][\A uid \in DOMAIN uidRegistry :
          uid \notin DOMAIN uidRegistry'
            => /\ uidRegistry[uid].accessCount = 0
               /\ clock - uidRegistry[uid].timestamp > maxAge]_vars

\* a sweep has removed one entry and has kept another that is older than
\* maxAge but was resolved
C29_Witness ==
  /\ snapshot # Null
  /\ \E i \in 1..Len(snapshot.elements) :
       snapshot.elements[i].uid \notin DOMAIN uidRegistry
  /\ \E uid \in DOMAIN uidRegistry :
       /\ uidRegistry[uid].accessCount > 0
       /\ clock - uidRegistry[uid].timestamp > maxAge

\* C30: after a capture has registered its elements, the entry of every uid it
\* registered holds the locators of the last element registered under that
\* uid, the access count 0 and the time of the capture; the entries of all
\* other uids are as they were.
C30_LastWriteWins ==
  [][snapshot' # snapshot =>
       /\ \A i \in 1..Len(snapshot'.elements) :
            snapshot'.elements[i].uid \in DOMAIN uidRegistry'
       /\ \A uid \in DOMAIN uidRegistry' :
            LET written == {i \in 1..Len(snapshot'.elements) :
                              snapshot'.elements[i].uid = uid}
                last == CHOOSE i \in written : \A j \in written : j <= i
                k == snapshot'.elements[last].element
            IN  IF written # {}
                  THEN uidRegistry'[uid] =
                         [selector |-> generateSelector(elements[k], PosOf(page, k),
                                                       Len(page)),
                          xpath |-> generateXPath(elements[k], PosOf(page, k)),
                          attributes |-> elements[k], text |-> elements[k].text,
                          timestamp |-> clock, accessCount |-> 0]
                  ELSE /\ uid \in DOMAIN uidRegistry
                       /\ uidRegistry'[uid] = uidRegistry[uid]]_vars

\* a later capture has registered two elements under one uid: the entry holds
\* the XPath of the second and the time of that capture
C30_Witness ==
  /\ snapshot # Null /\ snapshot.timestamp > 0
  /\ \E i, j \in 1..Len(snapshot.elements) :
       LET uid == snapshot.elements[j].uid
           first == snapshot.elements[i].element
           second == snapshot.elements[j].element
       IN  /\ i < j /\ snapshot.elements[i].uid = uid
           /\ uid \in DOMAIN uidRegistry
           /\ uidRegistry[uid].timestamp = snapshot.timestamp
           /\ uidRegistry[uid].xpath
                = generateXPath(elements[second], PosOf(page, second))
           /\ uidRegistry[uid].xpath
                # generateXPath(elements[first], PosOf(page, first))

\* C31 (as claimed): when the last of the 3 capture attempts after a
\* navigation is not accepted, the session does not end there: the current
\* snapshot becomes null and the iteration is counted; the next iteration
\* recaptures before it plans, and the session ends Failed only when that
\* recapture fails.
C31_ExhaustedCapturesForceRecapture ==
  /\ [][(pc = "navCapture" /\ pc' # pc /\ captureAttempt = maxCaptureAttempts
           /\ currentDom' = Null)
          => (pc' = "loopTop" /\ iteration' = iteration + 1
                /\ outcome' = outcome)]_vars
  /\ [][(pc = "loopTop" /\ pc' # pc /\ currentDom = Null
           /\ captureAttempt = maxCaptureAttempts)
          => (pc' = "recapture"
                \/ (pc' = "finalize" /\ outcome'.status # "error"))]_vars
  /\ [][(pc = "recapture" /\ pc' # pc)
          => \/ pc' = "plan" /\ currentDom' # Null /\ reqDom' = currentDom'
             \/ pc' = "finalize" /\ outcome'.status = "error"
                  /\ outcome'.via = "recapture"]_vars

\* C31 (amended): as above, but the loop condition and the stop flag are
\* tested before the recapture: with the iteration limit reached the session
\* ends Failed with the limit message, with a stop requested it ends Stopped,
\* and only otherwise the recapture runs.
C31_ExhaustedCapturesThenLoopTop ==
  /\ [][(pc = "navCapture" /\ pc' # pc /\ captureAttempt = maxCaptureAttempts
           /\ currentDom' = Null)
          => (pc' = "loopTop" /\ iteration' = iteration + 1
                /\ outcome' = outcome)]_vars
  /\ [][(pc = "loopTop" /\ pc' # pc /\ currentDom = Null
           /\ captureAttempt = maxCaptureAttempts)
          => IF iteration >= maxIterations
               THEN pc' = "finalize" /\ outcome'.status = "error"
                      /\ outcome'.via = "limit"
             ELSE IF stopRequested
               THEN pc' = "finalize" /\ outcome'.status = "stopped"
             ELSE pc' = "recapture"]_vars
  /\ [][(pc = "recapture" /\ pc' # pc)
          => \/ pc' = "plan" /\ currentDom' # Null /\ reqDom' = currentDom'
             \/ pc' = "finalize" /\ outcome'.status = "error"
                  /\ outcome'.via = "recapture"]_vars

\* the recapture of the iteration after three refused captures has failed
C31_Witness ==
  /\ pc = "finalize" /\ outcome.via = "recapture"
  /\ captureAttempt = maxCaptureAttempts /\ currentDom = Null

\* C32: among the candidates of a custom dropdown's popup, one whose text is
\* exactly the requested string is chosen before one that equals it up to
\* case, and that one before one that only contains it, wherever they stand
\* in the document (no candidate has the string as its data-value).
C32_DropdownPriority ==
  (/\ call.fn = "findCustomDropdownOption" /\ call.arg # <<>>
   /\ trim(call.arg) = call.arg
   /\ \A i \in 1..Len(control.options) :
        toLowerCase(control.options[i].value) # toLowerCase(call.arg))
    => LET opts == control.options
           first(S) == IF S = {} THEN 0 ELSE CHOOSE i \in S : \A j \in S : i <= j
           exact == first({i \in 1..Len(opts) : trim(opts[i].text) = call.arg})
           anyCase == first({i \in 1..Len(opts) :
                               toLowerCase(trim(opts[i].text))
                                 = toLowerCase(call.arg)})
           part == first({i \in 1..Len(opts) :
                            includes(toLowerCase(trim(opts[i].text)),
                                     toLowerCase(call.arg))})
       IN  IF exact # 0 THEN ret.found = exact
           ELSE IF anyCase # 0 THEN ret.found = anyCase
           ELSE part # 0 => ret.found = part

\* C33: a call of waitForSelector settles, once and for all: until it has
\* settled its timer is pending and the timeout has not passed; it settles
\* with true exactly when the selector is not empty and a matching element
\* existed at the call or appeared before the promise settled, and with
\* false otherwise; a settled outcome never changes.
C33_WaitSettlesWithAppearance ==
  /\ [](waiter.called =>
          /\ waiter.settled = "none" =>
               waiter.timer /\ waiter.elapsed <= waiter.timeout
          /\ waiter.settled # "none" => waiter.settledAt <= waiter.timeout
          /\ waiter.settled # "none" =>
               (waiter.settled = "true"
                  <=> (waiter.selector # ""
                         /\ (waiter.atCall \/ waiter.appeared))))
  /\ [][waiter.settled # "none" => waiter'.settled = waiter.settled]_vars

\* C34: in every element record the textual fields are capped: the text has
\* at most 100 characters, every attribute value at most 200, there are at
\* most 3 label texts, the shadow path has at most 400 characters, and the
\* accessible name, every label text, the value of the widget state and the
\* selector are no longer than the largest cap, 400 characters, whatever
\* the page holds.
C34_TextFieldsCapped ==
  call.fn = "serializeElement" =>
    /\ ret.text <= 100
    /\ \A a \in DOMAIN ret.attributes : ret.attributes[a] <= 200
    /\ Len(ret.labels) <= 3
    /\ ret.shadowPath <= 400
    /\ ret.accessibleName <= 400
    /\ \A i \in 1..Len(ret.labels) : ret.labels[i] <= 400
    /\ ret.stateValue <= 400
    /\ ret.selector <= 400

\* C35: the list of the listener registry never holds more than 2000
\* elements, and the call that would make it hold 2001 evicts the 500 oldest
\* entries: the list then is the former list without its first 500 elements,
\* followed by the new element.
C35_ListenerListBounded ==
  /\ [](Len(registryList) <= 2000)
  /\ [][Len(registryList) = 2000 /\ registryList' # registryList =>
         /\ Len(registryList') = 1501
         /\ SubSeq(registryList', 1, 1500) = SubSeq(registryList, 501, 2000)
         /\ registryList'[1501] = registryList[2000] + 1]_vars

C35_Witness ==
  Len(registryList) = 1501 /\ registryList[1] = 501 /\ registryList[1501] = 2001

\* C36: a click action delivers exactly one click event to the click
\* listeners of the target, and a checkbox that is clicked has changed its
\* state once: it is checked exactly when it was not before.
C36_OneClickPerAction ==
  call.fn = "click" =>
    /\ Cardinality({i \in 1..Len(dispatched) :
                      dispatched[i] \in {"click", "click()"}}) = 1
    /\ (call.before.tag = "input" /\ call.before.type = "checkbox") =>
          control.checked # call.before.checked

\* C37: for every call of handleExecute that obtained a session id and has
\* ended, by whichever path, the backend was sent the completion of that
\* session exactly once; and when no call is in progress any more,
\* state.sessionId is null and isExecuting and stopRequested are false.
C37_CompletionNotifiedOnce ==
  /\ \A r \in 1..Len(runs) :
       (runs[r].pc = "done" /\ runs[r].sid # 0) => completions[runs[r].sid] = 1
  /\ (runs # <<>> /\ \A r \in 1..Len(runs) : runs[r].pc = "done") =>
       (state.sessionId = 0 /\ ~state.isExecuting /\ ~state.stopRequested)

\* C38: while a session is running, from the moment its id was obtained until
\* its completion request has settled, state.sessionId is the id of that
\* session; the cleanup of an earlier session does not clear it.
C38_SessionIdIsRunningSession ==
  \A r \in 1..Len(runs) :
    runs[r].pc \in {"setup", "loop", "finalize"} => state.sessionId = runs[r].sid

\* C39: every CAPTURE and PERFORM message of a session was sent to the tab
\* that was active when the session was started, also when the user has
\* activated another tab in the meantime.
C39_MessagesGoToSessionTab ==
  \A r \in 1..Len(runs) : runs[r].sentTo \subseteq {runs[r].tab}

\* C40: every next-action request carries a snapshot that is not null and was
\* taken after the most recently dispatched action (the initial capture or a
\* capture before any action when none was dispatched yet), and as previous
\* result the result of that action (null before the first one); a snapshot
\* embedded in an execution result becomes the current snapshot only if no
\* frame performed the action after the frame that took it.
C40_RequestCarriesPostActionSnapshot ==
  /\ []((pc = "plan" /\ reqState = "pending") =>
          /\ reqDom # Null
          /\ reqDom.epoch = nDispatched
          /\ IF nDispatched = 0 THEN previousResultForBackend = Null
             ELSE /\ previousResultForBackend # Null
                  /\ previousResultForBackend.seq = nDispatched)
  /\ [][(pc = "executed" /\ pc' = "loopTop" /\ currentDom' # Null) =>
          (executionResult.performed \/ performedBy = {})]_vars

====
